---- MODULE Spec2Model ----
\* A model of the in-memory backend of floppy-disk (src/src/mem/mod.rs,
\* src/src/mem/inode.rs): the entry table, the existence guards, the table
\* operations and the handles that share an entry with the table.
EXTENDS Integers, Sequences, FiniteSets, TLC

\* ---------------------------------------------------------------- bounds

\* Largest value inode_serial may reach (the u64 counter is capped here).
MaxSerial == 3

\* Most components, after the root if it has one, of a path given to
\* canonicalize for normalising.
MaxLen == 5

\* The last inode serial given out where only links are made and moved:
\* three entries are made (serials 1 to 3), one more than under MaxSerial.
MaxLinkSerial == 4

\* The furthest a MemFile is taken: position plus the length of a write.
MaxBytes == 4

\* ----------------------------------------------------------------- paths

\* A path is the sequence of its components; "/" is the RootDir component.
Root == <<"/">>
\* Option::None where a path is expected.
None == <<>>
\* The paths given to the calls: /a and /ab are siblings of which one name
\* begins with the other, /a/b lies below /a.
Paths == {Root, <<"/", "a">>, <<"/", "ab">>, <<"/", "a", "b">>}

\* The byte sequences given to write: of different lengths, neither a prefix
\* of the other.
Contents == {<<65>>, <<66, 67>>}
\* The mode given to set_permissions (0o777), and the paths it is given for.
Modes == {511}
PermPaths == {<<"/", "a">>}

\* Path::starts_with: component-wise prefix.
starts_with(key, base) ==
    /\ Len(base) <= Len(key)
    /\ SubSeq(key, 1, Len(base)) = base

\* Path::parent: None for the root and for the empty path.
parent(path) ==
    IF Len(path) <= 1 THEN None ELSE SubSeq(path, 1, Len(path) - 1)

\* ---------------------------------------------------------------- inodes

new_dir(next_inode, path) ==
    [serial |-> next_inode, kind |-> "Dir", mode |-> 493, path |-> path,
     size |-> 0, buffer |-> <<>>, symlink_target |-> None]

new_file(next_inode, path, data) ==
    [serial |-> next_inode, kind |-> "File", mode |-> 420, path |-> path,
     size |-> 0, buffer |-> data, symlink_target |-> None]

new_symlink(next_inode, path, target) ==
    [serial |-> next_inode, kind |-> "Symlink", mode |-> 511, path |-> path,
     size |-> 0, buffer |-> <<>>, symlink_target |-> target]

\* ----------------------------------------------------------------- state

VARIABLES
    inode_serial,   \* MemFloppyDisk.inode_serial
    fs,             \* MemFloppyDisk.fs: path -> address of the Arc it holds
    heap,           \* address -> Inode, for every Arc still referenced
    meta,           \* the MemMetadata the caller holds (its Arc), 0 when none
    last,           \* the last call made and what it returned
    fs_lock,        \* the RwLock around MemFloppyDisk.fs: its holders
    task,           \* the rename that is under way, step by step
    dir,            \* the read_dir another task runs beside it
    writers,        \* the writes two tasks have under way, step by step
    file,           \* the MemFile the caller holds: its Arc and its position
    cloned,         \* the MemFile try_clone made of it
    reader          \* the metadata call a task has under way, step by step

vars == <<inode_serial, fs, heap, meta, last, fs_lock, task, dir, writers, file,
          cloned, reader>>

\* tokio::sync::RwLock: a reader waits for the writer, the writer for all.
\* A writer that finds the table held waits in the queue of the lock, and a
\* reader that comes after it waits behind it.
Unlocked == [writer |-> FALSE, readers |-> 0, waiting |-> 0]

\* A read lock that is given while the writer holds the table.
can_read_beside_writer(lock) == TRUE

can_read(lock) == ~lock.writer /\ lock.waiting = 0

can_write(lock) == ~lock.writer /\ lock.readers = 0

\* No rename is under way, no read_dir either.
Idle == [pc |-> "idle", from |-> None, to |-> None, next_inode |-> 0, old_inode |-> 0]
NotAsked == [pc |-> "idle", asked |-> "idle", seen |-> {}]

\* The two tasks that may write, and a task that has no write under way.
Tasks == {1, 2}
NotWriting == [pc |-> "idle", path |-> None, contents |-> <<>>, next_inode |-> 0,
               res |-> "none", beside |-> FALSE]
NoWriters == [t \in Tasks |-> NotWriting]

\* No metadata call is under way.
NoReader == [pc |-> "idle", path |-> None, at |-> 0, res |-> "none"]

\* The caller holds no MemFile.
NoFile == [inode |-> 0, position |-> 0]

\* The disk as the operations below take it.
Disk == [fs |-> fs, heap |-> heap, serial |-> inode_serial]

\* Arc::new: an address no live Arc has.
NewArc(h) == CHOOSE a \in 1..(Cardinality(DOMAIN h) + 1) : a \notin DOMAIN h

\* Arc's drop: an inode lives while the table or a handle refers to it.
Collect(h, t, m) ==
    LET live == {t[k] : k \in DOMAIN t} \cup {m, file.inode, cloned.inode}
    IN  [a \in (DOMAIN h) \cap live |-> h[a]]

\* The inode the table holds at path.
InodeAt(self, path) == self.heap[self.fs[path]]

\* The kind of the entry at path, "Absent" when the table has none.
KindAt(self, path) ==
    IF path \in DOMAIN self.fs THEN InodeAt(self, path).kind ELSE "Absent"

Outcome(self, res, n, out) ==
    [fs |-> self.fs, heap |-> self.heap, serial |-> self.serial,
     res |-> res, n |-> n, out |-> out]

\* ---------------------------------------------------------------- guards

find_lowest_non_existing_parent(self, input) ==
    LET par == parent(input)
        missing == {i \in 1..Len(par) : SubSeq(par, 1, i) \notin DOMAIN self.fs}
    IN  IF missing = {} THEN None
        ELSE SubSeq(par, 1, CHOOSE i \in missing : \A j \in missing : i <= j)

make_sure_parent_exists(self, path) ==
    IF find_lowest_non_existing_parent(self, path) # None THEN "NotFound" ELSE "Ok"

make_sure_path_exists(self, path) ==
    IF find_lowest_non_existing_parent(self, path) # None THEN "NotFound"
    ELSE IF path \notin DOMAIN self.fs THEN "NotFound"
    ELSE "Ok"

\* make_sure_path_doesnt_exist looking at the key before the ancestors.
make_sure_path_doesnt_exist_key_first(self, path) ==
    IF path \in DOMAIN self.fs THEN "AlreadyExists"
    ELSE IF find_lowest_non_existing_parent(self, path) # None THEN "NotFound"
    ELSE "Ok"

make_sure_path_doesnt_exist(self, path) ==
    IF find_lowest_non_existing_parent(self, path) # None THEN "NotFound"
    ELSE IF path \in DOMAIN self.fs THEN "AlreadyExists"
    ELSE "Ok"

\* get_next_inode_serial without its increment.
get_next_inode_serial_stuck(self) == self.serial

get_next_inode_serial(self) == self.serial + 1

insert_inode(self, path, inode) ==
    LET a == NewArc(self.heap)
    IN  [self EXCEPT
            !.fs = [k \in (DOMAIN self.fs) \cup {path} |->
                        IF k = path THEN a ELSE self.fs[k]],
            !.heap = [b \in (DOMAIN self.heap) \cup {a} |->
                        IF b = a THEN inode ELSE self.heap[b]]]

\* BTreeMap::remove of one key.
remove_key(self, path) ==
    [self EXCEPT !.fs = [k \in (DOMAIN self.fs) \ {path} |-> self.fs[k]]]

\* ------------------------------------------------------------ operations

\* write that extends the buffer of a file already at path.
write_appending(self, path, contents) ==
    IF make_sure_parent_exists(self, path) # "Ok"
    THEN Outcome(self, "NotFound", 0, <<>>)
    ELSE LET next_inode == get_next_inode_serial(self)
             held == IF KindAt(self, path) = "File"
                     THEN InodeAt(self, path).buffer ELSE <<>>
             d == insert_inode([self EXCEPT !.serial = next_inode], path,
                               new_file(next_inode, path, held \o contents))
         IN  Outcome(d, "Ok", 0, <<>>)

\* write that gives the file the serial of the entry it replaces.
write_keeping_serial(self, path, contents) ==
    IF make_sure_parent_exists(self, path) # "Ok"
    THEN Outcome(self, "NotFound", 0, <<>>)
    ELSE LET next_inode == get_next_inode_serial(self)
             serial == IF path \in DOMAIN self.fs
                       THEN InodeAt(self, path).serial ELSE next_inode
             d == insert_inode([self EXCEPT !.serial = next_inode], path,
                               new_file(serial, path, contents))
         IN  Outcome(d, "Ok", 0, <<>>)

write(self, path, contents) ==
    IF make_sure_parent_exists(self, path) # "Ok"
    THEN Outcome(self, "NotFound", 0, <<>>)
    ELSE LET next_inode == get_next_inode_serial(self)
             d == insert_inode([self EXCEPT !.serial = next_inode], path,
                               new_file(next_inode, path, contents))
         IN  Outcome(d, "Ok", 0, <<>>)

create_dir(self, path) ==
    LET guard == make_sure_path_doesnt_exist(self, path)
    IN  IF guard # "Ok" THEN Outcome(self, guard, 0, <<>>)
        ELSE LET next_inode == get_next_inode_serial(self)
                 d == insert_inode([self EXCEPT !.serial = next_inode], path,
                                   new_dir(next_inode, path))
             IN  Outcome(d, "Ok", 0, <<path>>)

\* The loop of create_dir_all; out lists the directories in the order created.
RECURSIVE create_dir_all_from(_, _, _)
create_dir_all_from(self, path, created) ==
    LET non_existing_parent == find_lowest_non_existing_parent(self, path)
        r == create_dir(self, IF non_existing_parent # None
                              THEN non_existing_parent ELSE path)
    IN  IF r.res # "Ok" THEN [r EXCEPT !.out = created]
        ELSE IF non_existing_parent # None
        THEN create_dir_all_from([fs |-> r.fs, heap |-> r.heap, serial |-> r.serial],
                                 path, Append(created, non_existing_parent))
        ELSE [r EXCEPT !.out = Append(created, path)]

create_dir_all(self, path) == create_dir_all_from(self, path, <<>>)

copy(self, from, to) ==
    IF make_sure_path_exists(self, from) # "Ok"
    THEN Outcome(self, "NotFound", 0, <<>>)
    ELSE LET next_inode == get_next_inode_serial(self)
             removed == remove_key([self EXCEPT !.serial = next_inode], to)
         IN  IF from \notin DOMAIN removed.fs
             THEN \* fs.get(from).unwrap() on None
                  Outcome(removed, "Panic", 0, <<>>)
             ELSE LET from_inode == InodeAt(removed, from)
                      to_inode == [new_file(next_inode, to, from_inode.buffer)
                                      EXCEPT !.mode = from_inode.mode]
                  IN  Outcome(insert_inode(removed, to, to_inode), "Ok",
                              Len(to_inode.buffer), <<>>)

\* rename without set_serial on the inode it moves.
rename_same_serial(self, from, to) ==
    LET guard_from == make_sure_path_exists(self, from)
        guard_to == make_sure_path_doesnt_exist(self, to)
    IN  IF guard_from # "Ok" THEN Outcome(self, guard_from, 0, <<>>)
        ELSE IF guard_to # "Ok" THEN Outcome(self, guard_to, 0, <<>>)
        ELSE LET next_inode == get_next_inode_serial(self)
                 old_inode == InodeAt(self, from)
                 removed == remove_key([self EXCEPT !.serial = next_inode], from)
             IN  Outcome(insert_inode(removed, to, old_inode), "Ok", 0, <<>>)

rename(self, from, to) ==
    LET guard_from == make_sure_path_exists(self, from)
        guard_to == make_sure_path_doesnt_exist(self, to)
    IN  IF guard_from # "Ok" THEN Outcome(self, guard_from, 0, <<>>)
        ELSE IF guard_to # "Ok" THEN Outcome(self, guard_to, 0, <<>>)
        ELSE LET next_inode == get_next_inode_serial(self)
                 old_inode == InodeAt(self, from)
                 new_inode == [old_inode EXCEPT !.serial = next_inode]
                 removed == remove_key([self EXCEPT !.serial = next_inode], from)
             IN  Outcome(insert_inode(removed, to, new_inode), "Ok", 0, <<>>)

\* symlink that stores the target of src when src is a symlink itself.
symlink_resolved(self, src, dst) ==
    LET guard_src == make_sure_path_exists(self, src)
        guard_dst == make_sure_path_doesnt_exist(self, dst)
    IN  IF guard_src # "Ok" THEN Outcome(self, guard_src, 0, <<>>)
        ELSE IF guard_dst # "Ok" THEN Outcome(self, guard_dst, 0, <<>>)
        ELSE LET next_inode == get_next_inode_serial(self)
                 target == IF InodeAt(self, src).kind = "Symlink"
                           THEN InodeAt(self, src).symlink_target ELSE src
                 d == insert_inode([self EXCEPT !.serial = next_inode], dst,
                                   new_symlink(next_inode, dst, target))
             IN  Outcome(d, "Ok", 0, <<>>)

symlink(self, src, dst) ==
    LET guard_src == make_sure_path_exists(self, src)
        guard_dst == make_sure_path_doesnt_exist(self, dst)
    IN  IF guard_src # "Ok" THEN Outcome(self, guard_src, 0, <<>>)
        ELSE IF guard_dst # "Ok" THEN Outcome(self, guard_dst, 0, <<>>)
        ELSE LET next_inode == get_next_inode_serial(self)
                 d == insert_inode([self EXCEPT !.serial = next_inode], dst,
                                   new_symlink(next_inode, dst, src))
             IN  Outcome(d, "Ok", 0, <<>>)

\* The keys read_dir collects: one more component than path, below path.
read_dir_keys(self, path) ==
    {key \in DOMAIN self.fs : starts_with(key, path) /\ Len(key) = Len(path) + 1}

\* The names of the model in the order of their bytes; "/" is the root
\* component, which Path's ordering puts before every name.
NameOrder == <<"/", "a", "ab", "b">>
name_rank(name) == CHOOSE i \in 1..Len(NameOrder) : NameOrder[i] = name

\* Ord of PathBuf, the order BTreeMap::iter walks the keys in: component by
\* component, a path before the paths it is a prefix of.
path_less(a, b) ==
    \E i \in 1..(Len(a) + 1) :
        /\ i <= Len(b)
        /\ \A j \in 1..(i - 1) : a[j] = b[j]
        /\ \/ i = Len(a) + 1
           \/ i <= Len(a) /\ name_rank(a[i]) < name_rank(b[i])

\* The keys in keys, in that order.
RECURSIVE iter(_)
iter(keys) ==
    IF keys = {} THEN <<>>
    ELSE LET first == CHOOSE k \in keys : \A o \in keys \ {k} : path_less(k, o)
         IN  <<first>> \o iter(keys \ {first})

\* The Arcs the table holds at the keys of a sequence, in its order.
arcs_of(self, keys) == [i \in 1..Len(keys) |-> self.fs[keys[i]]]

\* read_dir that collects every key that starts with path.
read_dir_below(self, path) ==
    IF make_sure_path_exists(self, path) # "Ok"
    THEN Outcome(self, "NotFound", 0, <<>>)
    ELSE Outcome(self, "Ok", 0,
                 arcs_of(self, iter({key \in DOMAIN self.fs : starts_with(key, path)})))

\* read_dir returns the Vec of Arcs its MemReadDir is made of in out.
read_dir(self, path) ==
    IF make_sure_path_exists(self, path) # "Ok"
    THEN Outcome(self, "NotFound", 0, <<>>)
    ELSE Outcome(self, "Ok", 0, arcs_of(self, iter(read_dir_keys(self, path))))

\* MemReadDir::new.
MemReadDir_new(inodes) == [inodes |-> inodes, idx |-> 0]

\* MemReadDir::next_entry: the reader after the call and the entry returned,
\* the Arc of its inode, or 0 for None.
next_entry(rd) ==
    IF rd.idx >= Len(rd.inodes)
    THEN [rd |-> rd, entry |-> 0]
    ELSE [rd |-> [rd EXCEPT !.idx = @ + 1], entry |-> rd.inodes[rd.idx + 1]]

\* What so many calls of next_entry on rd return, one after the other.
RECURSIVE next_entries(_, _)
next_entries(rd, calls) ==
    IF calls = 0 THEN <<>>
    ELSE <<next_entry(rd).entry>> \o next_entries(next_entry(rd).rd, calls - 1)

\* remove_file that removes the keys below path with it.
remove_file_subtree(self, path) ==
    IF make_sure_path_exists(self, path) # "Ok"
    THEN Outcome(self, "NotFound", 0, <<>>)
    ELSE LET to_remove == {key \in DOMAIN self.fs : starts_with(key, path)}
         IN  Outcome([self EXCEPT !.fs = [k \in (DOMAIN self.fs) \ to_remove |->
                                             self.fs[k]]],
                     "Ok", 0, <<>>)

remove_file(self, path) ==
    IF make_sure_path_exists(self, path) # "Ok"
    THEN Outcome(self, "NotFound", 0, <<>>)
    ELSE Outcome(remove_key(self, path), "Ok", 0, <<>>)

\* remove_dir without its scan for children.
remove_dir_unchecked(self, path) ==
    IF make_sure_path_exists(self, path) # "Ok"
    THEN Outcome(self, "NotFound", 0, <<>>)
    ELSE Outcome(remove_key(self, path), "Ok", 0, <<>>)

remove_dir(self, path) ==
    IF make_sure_path_exists(self, path) # "Ok"
    THEN Outcome(self, "NotFound", 0, <<>>)
    ELSE IF read_dir_keys(self, path) = {}
    THEN Outcome(remove_key(self, path), "Ok", 0, <<>>)
    ELSE Outcome(self, "InvalidInput", 0, <<>>)

\* One name begins with the characters of the other.
NameBegins(name, with) == name = with \/ (name = "ab" /\ with = "a")

\* remove_dir_all comparing the texts of the paths, not their components.
remove_dir_all_by_text(self, path) ==
    IF make_sure_path_exists(self, path) # "Ok"
    THEN Outcome(self, "NotFound", 0, <<>>)
    ELSE LET n == Len(path)
             to_remove ==
                {key \in DOMAIN self.fs :
                    \/ starts_with(key, path)
                    \/ /\ Len(key) >= n
                       /\ SubSeq(key, 1, n - 1) = SubSeq(path, 1, n - 1)
                       /\ NameBegins(key[n], path[n])}
         IN  Outcome([self EXCEPT !.fs = [k \in (DOMAIN self.fs) \ to_remove |->
                                             self.fs[k]]],
                     "Ok", 0, <<>>)

remove_dir_all(self, path) ==
    IF make_sure_path_exists(self, path) # "Ok"
    THEN Outcome(self, "NotFound", 0, <<>>)
    ELSE LET to_remove == {key \in DOMAIN self.fs : starts_with(key, path)}
         IN  Outcome([self EXCEPT !.fs = [k \in (DOMAIN self.fs) \ to_remove |->
                                             self.fs[k]]],
                     "Ok", 0, <<>>)

\* set_permissions that writes the mode into every inode of the disk.
set_permissions_everywhere(self, path, perm) ==
    IF make_sure_path_exists(self, path) # "Ok"
    THEN Outcome(self, "NotFound", 0, <<>>)
    ELSE Outcome([self EXCEPT !.heap = [a \in DOMAIN self.heap |->
                                           [self.heap[a] EXCEPT !.mode = perm]]],
                 "Ok", 0, <<>>)

set_permissions(self, path, perm) ==
    IF make_sure_path_exists(self, path) # "Ok"
    THEN Outcome(self, "NotFound", 0, <<>>)
    ELSE Outcome([self EXCEPT !.heap[self.fs[path]].mode = perm], "Ok", 0, <<>>)

\* read that looks at the kind of the entry before it looks for the entry.
read_kind_first(self, path) ==
    IF KindAt(self, path) # "File"
    THEN Outcome(self, "InvalidInput", 0, <<>>)
    ELSE IF make_sure_path_exists(self, path) # "Ok"
    THEN Outcome(self, "NotFound", 0, <<>>)
    ELSE Outcome(self, "Ok", 0, InodeAt(self, path).buffer)

\* read returns the buffer in out.
read(self, path) ==
    IF make_sure_path_exists(self, path) # "Ok"
    THEN Outcome(self, "NotFound", 0, <<>>)
    ELSE IF InodeAt(self, path).kind # "File"
    THEN Outcome(self, "InvalidInput", 0, <<>>)
    ELSE Outcome(self, "Ok", 0, InodeAt(self, path).buffer)

\* The bytes a sequence is to have after its first byte, by that byte, as
\* core::str::from_utf8 reads it: 0 for a byte that cannot come first.
utf8_char_width(b) ==
    IF b < 128 THEN 1
    ELSE IF b >= 194 /\ b <= 223 THEN 2
    ELSE IF b >= 224 /\ b <= 239 THEN 3
    ELSE IF b >= 240 /\ b <= 244 THEN 4
    ELSE 0

\* The range the second byte of a sequence must lie in, by its first byte.
utf8_second(first) ==
    IF first = 224 THEN 160..191
    ELSE IF first = 237 THEN 128..159
    ELSE IF first = 240 THEN 144..191
    ELSE IF first = 244 THEN 128..143
    ELSE 128..191

\* std::str::from_utf8(v).is_ok()
RECURSIVE from_utf8_is_ok(_)
from_utf8_is_ok(v) ==
    IF v = <<>> THEN TRUE
    ELSE LET w == utf8_char_width(v[1])
         IN  /\ w # 0
             /\ Len(v) >= w
             /\ w >= 2 => v[2] \in utf8_second(v[1])
             /\ \A i \in 3..w : v[i] \in 128..191
             /\ from_utf8_is_ok(SubSeq(v, w + 1, Len(v)))

\* read_to_string returns the String in out: the bytes of the buffer, which
\* from_utf8 accepted; its unwrap panics on the bytes it did not accept.
read_to_string(self, path) ==
    IF make_sure_path_exists(self, path) # "Ok"
    THEN Outcome(self, "NotFound", 0, <<>>)
    ELSE IF from_utf8_is_ok(InodeAt(self, path).buffer)
    THEN Outcome(self, "Ok", 0, InodeAt(self, path).buffer)
    ELSE Outcome(self, "Panic", 0, <<>>)

\* read_link returns the target in out, as it was stored.
read_link(self, path) ==
    IF make_sure_path_exists(self, path) # "Ok"
    THEN Outcome(self, "NotFound", 0, <<>>)
    ELSE IF InodeAt(self, path).kind # "Symlink"
    THEN Outcome(self, "InvalidInput", 0, <<>>)
    ELSE IF InodeAt(self, path).symlink_target = None
    THEN \* assert!(inode.symlink_target().is_some())
         Outcome(self, "Panic", 0, <<>>)
    ELSE Outcome(self, "Ok", 0, InodeAt(self, path).symlink_target)

\* PathBuf::pop that takes the root away as well.
pop_through_root(out) ==
    IF out = <<>> THEN out ELSE SubSeq(out, 1, Len(out) - 1)

\* PathBuf::pop: the last component is removed, the root stays.
pop(out) ==
    IF out = <<>> \/ out = Root THEN out ELSE SubSeq(out, 1, Len(out) - 1)

\* PathBuf::push: the root replaces the path, any other component extends it.
push(out, component) ==
    IF component = "/" THEN Root ELSE Append(out, component)

\* The loop of canonicalize over the components, out being what it built.
RECURSIVE canonicalize_components(_, _)
canonicalize_components(components, out) ==
    IF components = <<>> THEN out
    ELSE LET component == Head(components)
             next == IF component = "." THEN out
                     ELSE IF component = ".."
                     THEN IF Len(out) > 0 THEN pop(out) ELSE out
                     ELSE push(out, component)
         IN  canonicalize_components(Tail(components), next)

\* The loop of canonicalize over the symlinks: hops are the paths it has
\* been at. fs.get(&out).unwrap() panics on a target that is not a key; a
\* target it has been at before keeps the loop going for ever.
RECURSIVE canonicalize_symlinks(_, _, _)
canonicalize_symlinks(self, out, hops) ==
    IF InodeAt(self, out).kind # "Symlink" THEN Outcome(self, "Ok", 0, out)
    ELSE LET target == InodeAt(self, out).symlink_target
         IN  IF target \notin DOMAIN self.fs THEN Outcome(self, "Panic", 0, <<>>)
             ELSE IF target \in hops \cup {out} THEN Outcome(self, "Hang", 0, <<>>)
             ELSE canonicalize_symlinks(self, target, hops \cup {out})

\* canonicalize returns the path in out.
canonicalize(self, path) ==
    LET out == canonicalize_components(path, <<>>)
    IN  IF out \in DOMAIN self.fs
        THEN canonicalize_symlinks(self, out, {})
        ELSE Outcome(self, "Ok", 0, out)

\* symlink_metadata that returns the handle of the link itself.
symlink_metadata_of_link(self, path) ==
    IF make_sure_path_exists(self, path) # "Ok"
    THEN Outcome(self, "NotFound", 0, <<>>)
    ELSE IF InodeAt(self, path).kind = "Symlink"
    THEN Outcome(self, "Ok", self.fs[path], <<>>)
    ELSE Outcome(self, "Other", 0, <<>>)

\* metadata returns a handle on the Arc at path: its address in n.
metadata(self, path) ==
    IF make_sure_path_exists(self, path) # "Ok"
    THEN Outcome(self, "NotFound", 0, <<>>)
    ELSE Outcome(self, "Ok", self.fs[path], <<>>)

symlink_metadata(self, path) ==
    IF make_sure_path_exists(self, path) # "Ok"
    THEN Outcome(self, "NotFound", 0, <<>>)
    ELSE LET inode == InodeAt(self, path)
         IN  IF inode.kind = "Symlink"
             THEN IF inode.symlink_target # None
                  THEN IF make_sure_path_exists(self, inode.symlink_target) # "Ok"
                       THEN Outcome(self, "Other", 0, <<>>)
                       ELSE Outcome(self, "Ok", self.fs[inode.symlink_target], <<>>)
                  ELSE Outcome(self, "Other", 0, <<>>)
             ELSE Outcome(self, "Other", 0, <<>>)

\* try_exists that applies the guard of the other calls before it looks.
try_exists_guarded(self, path) ==
    IF make_sure_path_exists(self, path) # "Ok"
    THEN Outcome(self, "Ok", 0, <<0>>)
    ELSE Outcome(self, "Ok", 0, <<1>>)

\* The loop of try_exists from current_path; hops are the symlinks it has
\* gone through: on a symlink it meets again the loop has no end. The bool
\* returned is in out, <<1>> for true and <<0>> for false.
RECURSIVE try_exists_from(_, _, _)
try_exists_from(self, current_path, hops) ==
    IF current_path \in DOMAIN self.fs
    THEN LET inode == InodeAt(self, current_path)
         IN  IF inode.kind = "Symlink"
             THEN IF inode.symlink_target = None
                  THEN Outcome(self, "Other", 0, <<>>)
                  ELSE IF current_path \in hops
                  THEN Outcome(self, "Hang", 0, <<>>)
                  ELSE try_exists_from(self, inode.symlink_target,
                                       hops \cup {current_path})
             ELSE Outcome(self, "Ok", 0, <<1>>)
    ELSE Outcome(self, "Ok", 0, <<0>>)

try_exists(self, path) == try_exists_from(self, path, {})

\* hard_link is unimplemented!(): the call panics, whatever src and dst are.
hard_link(self, src, dst) == Outcome(self, "Panic", 0, <<>>)

\* --------------------------------------------------------------- actions

\* A call as the caller sees it: its arguments and what it returned; was and
\* to_was record what its paths held when it was made.
Call(op, path, to, data, mode, r) ==
    [op |-> op, path |-> path, to |-> to, data |-> data, mode |-> mode,
     res |-> r.res, n |-> r.n, out |-> r.out,
     was |-> KindAt(Disk, path), to_was |-> KindAt(Disk, to)]

\* The calls that take &self and leave the disk as it is.
ReadOnly ==
    {"read", "metadata", "symlink_metadata", "read_to_string", "read_link",
     "canonicalize", "try_exists", "read_dir"}

\* A call that failed or only read left the disk as it was: what can follow it
\* is what could follow the call before it. The model goes on from the calls
\* that succeeded on the disk, and from the metadata whose handle is kept.
Returned ==
    /\ last.res = "Ok"
    /\ last.op \in ReadOnly => (meta # 0 /\ last.n = meta)

\* A call on the disk returns r: the disk is as the call left it and the Arcs
\* nothing refers to any more are dropped; the caller holds m.
CommitWithin(max, r, m, call) ==
    /\ Returned
    /\ task = Idle
    /\ writers = NoWriters
    /\ IF call.op \in ReadOnly THEN can_read(fs_lock) ELSE can_write(fs_lock)
    /\ r.serial <= max
    /\ inode_serial' = r.serial
    /\ fs' = r.fs
    /\ heap' = Collect(r.heap, r.fs, m)
    /\ meta' = m
    /\ last' = call
    /\ UNCHANGED <<fs_lock, task, dir, writers, file, cloned, reader>>

Commit(r, m, call) == CommitWithin(MaxSerial, r, m, call)

Init ==
    /\ inode_serial = 1
    /\ fs = [p \in {Root} |-> 1]
    /\ heap = [a \in {1} |-> new_dir(0, Root)]
    /\ meta = 0
    /\ last = [op |-> "new", path |-> None, to |-> None, data |-> <<>>,
               mode |-> 0, res |-> "Ok", n |-> 0, out |-> <<>>,
               was |-> "Absent", to_was |-> "Absent"]
    /\ fs_lock = Unlocked
    /\ task = Idle
    /\ dir = NotAsked
    /\ writers = NoWriters
    /\ file = NoFile
    /\ cloned = NoFile
    /\ reader = NoReader

WriteAt(path, contents) ==
    LET r == write(Disk, path, contents)
    IN  Commit(r, meta, Call("write", path, None, contents, 0, r))

CreateDirAt(path) ==
    LET r == create_dir(Disk, path)
    IN  Commit(r, meta, Call("create_dir", path, None, <<>>, 0, r))

CreateDirAllAt(path) ==
    LET r == create_dir_all(Disk, path)
    IN  Commit(r, meta, Call("create_dir_all", path, None, <<>>, 0, r))

CopyAt(from, to) ==
    LET r == copy(Disk, from, to)
    IN  Commit(r, meta, Call("copy", from, to, <<>>, 0, r))

RenameAt(from, to) ==
    LET r == rename(Disk, from, to)
    IN  Commit(r, meta, Call("rename", from, to, <<>>, 0, r))

SymlinkAt(src, dst) ==
    LET r == symlink(Disk, src, dst)
    IN  Commit(r, meta, Call("symlink", src, dst, <<>>, 0, r))

RemoveFileAt(path) ==
    LET r == remove_file(Disk, path)
    IN  Commit(r, meta, Call("remove_file", path, None, <<>>, 0, r))

RemoveDirAt(path) ==
    LET r == remove_dir(Disk, path)
    IN  Commit(r, meta, Call("remove_dir", path, None, <<>>, 0, r))

RemoveDirAllAt(path) ==
    LET r == remove_dir_all(Disk, path)
    IN  Commit(r, meta, Call("remove_dir_all", path, None, <<>>, 0, r))

SetPermissionsAt(path, perm) ==
    LET r == set_permissions(Disk, path, perm)
    IN  Commit(r, meta, Call("set_permissions", path, None, <<>>, perm, r))

ReadAt(path) ==
    LET r == read(Disk, path)
    IN  Commit(r, meta, Call("read", path, None, <<>>, 0, r))

\* The MemMetadata returned is dropped by the caller at once.
MetadataAt(path) ==
    LET r == metadata(Disk, path)
    IN  Commit(r, meta, Call("metadata", path, None, <<>>, 0, r))

SymlinkMetadataAt(path) ==
    LET r == symlink_metadata(Disk, path)
    IN  Commit(r, meta, Call("symlink_metadata", path, None, <<>>, 0, r))

Write == \E path \in Paths, contents \in Contents : WriteAt(path, contents)
CreateDir == \E path \in Paths : CreateDirAt(path)
CreateDirAll == \E path \in Paths : CreateDirAllAt(path)
Copy == \E from \in Paths, to \in Paths : CopyAt(from, to)
Rename == \E from \in Paths, to \in Paths : RenameAt(from, to)
Symlink == \E src \in Paths, dst \in Paths : SymlinkAt(src, dst)
RemoveFile == \E path \in Paths : RemoveFileAt(path)
RemoveDir == \E path \in Paths : RemoveDirAt(path)
RemoveDirAll == \E path \in Paths : RemoveDirAllAt(path)
SetPermissions == \E path \in PermPaths, perm \in Modes : SetPermissionsAt(path, perm)
Read == \E path \in Paths : ReadAt(path)
Metadata == \E path \in Paths : MetadataAt(path)
SymlinkMetadata == \E path \in Paths : SymlinkMetadataAt(path)

Next ==
    \/ Write
    \/ CreateDir
    \/ CreateDirAll
    \/ Copy
    \/ Rename
    \/ Symlink
    \/ RemoveFile
    \/ RemoveDir
    \/ RemoveDirAll
    \/ SetPermissions
    \/ Read
    \/ Metadata
    \/ SymlinkMetadata

Spec == Init /\ [][Next]_vars

\* ------------------------------------------------- a handle that is kept

\* MemMetadata::file_type and MemMetadata::len, read through the handle.
file_type(h, inode) == h[inode].kind

len(h, inode) == Len(h[inode].buffer)

\* MemMetadata::permissions: the mode of the inode the handle shares.
permissions(h, inode) == h[inode].mode

\* metadata whose MemMetadata the caller keeps, in place of the one held.
KeepMetadataAt(path) ==
    LET r == metadata(Disk, path)
    IN  Commit(r, IF r.res = "Ok" THEN r.n ELSE meta,
               Call("metadata", path, None, <<>>, 0, r))

KeepMetadata == \E path \in Paths : KeepMetadataAt(path)

NextHandle ==
    \/ KeepMetadata
    \/ Write
    \/ CreateDir
    \/ Rename
    \/ SetPermissions
    \/ RemoveFile

SpecHandle == Init /\ [][NextHandle]_vars

\* ------------------------------------------------- bytes that may be text

\* The byte sequences written where text is read back: "A", U+00E9 in two
\* bytes, a byte that no text has, and the first byte of two alone.
Texts == {<<65>>, <<195, 169>>, <<255>>, <<195>>}

ReadToStringAt(path) ==
    LET r == read_to_string(Disk, path)
    IN  Commit(r, meta, Call("read_to_string", path, None, <<>>, 0, r))

WriteText == \E path \in Paths, contents \in Texts : WriteAt(path, contents)
ReadToString == \E path \in Paths : ReadToStringAt(path)

NextText ==
    \/ WriteText
    \/ CreateDir
    \/ Symlink
    \/ Read
    \/ ReadToString

SpecText == Init /\ [][NextText]_vars

\* ---------------------------------------- permissions and hard links

HardLinkAt(src, dst) ==
    LET r == hard_link(Disk, src, dst)
    IN  Commit(r, meta, Call("hard_link", src, dst, <<>>, 0, r))

HardLink == \E src \in Paths, dst \in Paths : HardLinkAt(src, dst)

NextFrame ==
    \/ Write
    \/ CreateDir
    \/ RemoveFile
    \/ SetPermissions
    \/ Metadata
    \/ HardLink

SpecFrame == Init /\ [][NextFrame]_vars

\* ------------------------------------------------------------ symlinks

ReadLinkAt(path) ==
    LET r == read_link(Disk, path)
    IN  Commit(r, meta, Call("read_link", path, None, <<>>, 0, r))

CanonicalizeAt(path) ==
    LET r == canonicalize(Disk, path)
    IN  Commit(r, meta, Call("canonicalize", path, None, <<>>, 0, r))

TryExistsAt(path) ==
    LET r == try_exists(Disk, path)
    IN  Commit(r, meta, Call("try_exists", path, None, <<>>, 0, r))

ReadDirAt(path) ==
    LET r == read_dir(Disk, path)
    IN  Commit(r, meta, Call("read_dir", path, None, <<>>, 0, r))

ReadLink == \E path \in Paths : ReadLinkAt(path)
Canonicalize == \E path \in Paths : CanonicalizeAt(path)
TryExists == \E path \in Paths : TryExistsAt(path)
ReadDirEntries == \E path \in Paths : ReadDirAt(path)

NextLinks ==
    \/ Write
    \/ CreateDir
    \/ Symlink
    \/ RemoveFile
    \/ RemoveDir
    \/ RemoveDirAll
    \/ Rename
    \/ Read
    \/ ReadLink
    \/ Canonicalize
    \/ SymlinkMetadata
    \/ TryExists
    \/ ReadDirEntries

SpecLinks == Init /\ [][NextLinks]_vars

\* ------------------------------------------- canonicalize of any path

\* The components a path is made of, after the root if it has one.
Components == {".", "..", "a", "b"}

\* The paths given to canonicalize: relative ones and the same after the root.
Relative == UNION {[1..n -> Components] : n \in 0..MaxLen}
CanonPaths == Relative \cup {Root \o p : p \in Relative}

\* A new disk, and a path that is about to be given to canonicalize.
InitCanon ==
    /\ inode_serial = 1
    /\ fs = [p \in {Root} |-> 1]
    /\ heap = [a \in {1} |-> new_dir(0, Root)]
    /\ meta = 0
    /\ last \in {[op |-> "input", path |-> p, to |-> None, data |-> <<>>,
                   mode |-> 0, res |-> "Ok", n |-> 0, out |-> <<>>,
                   was |-> "Absent", to_was |-> "Absent"] : p \in CanonPaths}
    /\ fs_lock = Unlocked
    /\ task = Idle
    /\ dir = NotAsked
    /\ writers = NoWriters
    /\ file = NoFile
    /\ cloned = NoFile
    /\ reader = NoReader

CanonicalizeInput == last.op = "input" /\ CanonicalizeAt(last.path)

NextCanon == CanonicalizeInput

SpecCanon == InitCanon /\ [][NextCanon]_vars

\* ------------------------------------- rename beside a reader of the table

\* rename up to its first guard (mod.rs:396).
RenameStart(from, to) ==
    /\ Returned
    /\ task = Idle
    /\ can_read(fs_lock)
    /\ LET guard_from == make_sure_path_exists(Disk, from)
       IN  IF guard_from = "Ok"
           THEN /\ task' = [Idle EXCEPT !.pc = "from_ok", !.from = from, !.to = to]
                /\ UNCHANGED last
           ELSE /\ last' = Call("rename", from, to, <<>>, 0,
                                Outcome(Disk, guard_from, 0, <<>>))
                /\ UNCHANGED task
    /\ UNCHANGED <<inode_serial, fs, heap, meta, fs_lock, dir, writers, file, cloned, reader>>

\* The second guard and get_next_inode_serial (mod.rs:397-398).
RenameGuardTo ==
    /\ task.pc = "from_ok"
    /\ can_read(fs_lock)
    /\ LET guard_to == make_sure_path_doesnt_exist(Disk, task.to)
       IN  IF guard_to = "Ok"
           THEN /\ get_next_inode_serial(Disk) <= MaxSerial
                /\ inode_serial' = get_next_inode_serial(Disk)
                /\ task' = [task EXCEPT !.pc = "to_ok",
                                        !.next_inode = get_next_inode_serial(Disk)]
                /\ UNCHANGED last
           ELSE /\ last' = Call("rename", task.from, task.to, <<>>, 0,
                                Outcome(Disk, guard_to, 0, <<>>))
                /\ task' = Idle
                /\ UNCHANGED inode_serial
    /\ UNCHANGED <<fs, heap, meta, fs_lock, dir, writers, file, cloned, reader>>

\* self.fs.write().await (mod.rs:400).
RenameLock ==
    /\ task.pc = "to_ok"
    /\ can_write(fs_lock)
    /\ fs_lock' = [fs_lock EXCEPT !.writer = TRUE]
    /\ task' = [task EXCEPT !.pc = "locked"]
    /\ UNCHANGED <<inode_serial, fs, heap, meta, last, dir, writers, file, cloned, reader>>

\* fs.remove(from): the Arc removed is held by the task (mod.rs:401).
RenameRemove ==
    /\ task.pc = "locked"
    /\ fs' = remove_key(Disk, task.from).fs
    /\ task' = [task EXCEPT !.pc = "removed", !.old_inode = fs[task.from]]
    /\ UNCHANGED <<inode_serial, heap, meta, last, fs_lock, dir, writers, file, cloned, reader>>

\* The clone under the new serial is inserted at to, the write guard and the
\* Arc removed are dropped, the call returns (mod.rs:402-407).
RenameInsert ==
    /\ task.pc = "removed"
    /\ LET new_inode == [heap[task.old_inode] EXCEPT !.serial = task.next_inode]
           d == insert_inode(Disk, task.to, new_inode)
       IN  /\ fs' = d.fs
           /\ heap' = Collect(d.heap, d.fs, meta)
           /\ last' = Call("rename", task.from, task.to, <<>>, 0,
                           Outcome(d, "Ok", 0, <<>>))
    /\ fs_lock' = [fs_lock EXCEPT !.writer = FALSE]
    /\ task' = Idle
    /\ UNCHANGED <<inode_serial, meta, dir, writers, file, cloned, reader>>

\* Another task calls read_dir("/") (mod.rs:294).
ReadDirCall ==
    /\ Returned
    /\ dir = NotAsked
    /\ dir' = [pc |-> "guard", asked |-> task.pc, seen |-> {}]
    /\ UNCHANGED <<inode_serial, fs, heap, meta, last, fs_lock, task, writers, file, cloned, reader>>

\* Its guard, under a read lock of its own (mod.rs:297).
ReadDirGuard ==
    /\ dir.pc = "guard"
    /\ can_read(fs_lock)
    /\ dir' = IF make_sure_path_exists(Disk, Root) = "Ok"
              THEN [dir EXCEPT !.pc = "lock"] ELSE NotAsked
    /\ UNCHANGED <<inode_serial, fs, heap, meta, last, fs_lock, task, writers, file, cloned, reader>>

\* self.fs.read().await and the loop over the keys (mod.rs:299-306).
ReadDirCollect ==
    /\ dir.pc = "lock"
    /\ can_read(fs_lock)
    /\ fs_lock' = [fs_lock EXCEPT !.readers = @ + 1]
    /\ dir' = [dir EXCEPT !.pc = "collected", !.seen = read_dir_keys(Disk, Root)]
    /\ UNCHANGED <<inode_serial, fs, heap, meta, last, task, writers, file, cloned, reader>>

\* The read guard is dropped and read_dir returns (mod.rs:308).
ReadDirReturn ==
    /\ dir.pc = "collected"
    /\ fs_lock' = [fs_lock EXCEPT !.readers = @ - 1]
    /\ dir' = NotAsked
    /\ UNCHANGED <<inode_serial, fs, heap, meta, last, task, writers, file, cloned, reader>>

RenameStep ==
    \/ \E from \in Paths, to \in Paths : RenameStart(from, to)
    \/ RenameGuardTo
    \/ RenameLock
    \/ RenameRemove
    \/ RenameInsert

ReadDir ==
    \/ ReadDirCall
    \/ ReadDirGuard
    \/ ReadDirCollect
    \/ ReadDirReturn

NextRename ==
    \/ Write
    \/ CreateDir
    \/ RenameStep
    \/ ReadDir

SpecRename == Init /\ [][NextRename]_vars

\* ------------------------------------------------- two tasks that write

\* The insert of write on the table it has locked, appending the contents to
\* the buffer the entry at path has.
write_locked_appending(self, path, contents, next_inode) ==
    LET held == IF KindAt(self, path) = "File"
                THEN InodeAt(self, path).buffer ELSE <<>>
    IN  insert_inode(self, path, new_file(next_inode, path, held \o contents))

\* What write does on the table it has locked (mod.rs:517-518).
write_locked(self, path, contents, next_inode) ==
    insert_inode(self, path, new_file(next_inode, path, contents))

\* The writes that have passed no guard yet: each is to take a serial.
ToTakeSerial == Cardinality({t \in Tasks : writers[t].pc = "guard"})

\* The other task is in the middle of a write.
Writing(t) == writers[t].pc \in {"guard", "lock", "locked"}

\* Task t calls write(path, contents) (mod.rs:506).
WriteCall(t, path, contents) ==
    /\ Returned
    /\ task = Idle
    /\ writers[t].pc = "idle"
    /\ inode_serial + ToTakeSerial < MaxSerial
    /\ writers' = [writers EXCEPT ![t] =
                      [NotWriting EXCEPT !.pc = "guard", !.path = path,
                                         !.contents = contents,
                                         !.beside = \E u \in Tasks \ {t} : Writing(u)]]
    /\ UNCHANGED <<inode_serial, fs, heap, meta, last, fs_lock, task, dir, file, cloned, reader>>

\* make_sure_parent_exists under a read lock of its own, and
\* get_next_inode_serial (mod.rs:512-514).
WriteGuard(t) ==
    /\ writers[t].pc = "guard"
    /\ can_read(fs_lock)
    /\ IF make_sure_parent_exists(Disk, writers[t].path) = "Ok"
       THEN /\ inode_serial' = get_next_inode_serial(Disk)
            /\ writers' = [writers EXCEPT ![t].pc = "lock",
                                          ![t].next_inode = get_next_inode_serial(Disk)]
       ELSE /\ writers' = [writers EXCEPT ![t].pc = "done", ![t].res = "NotFound"]
            /\ UNCHANGED inode_serial
    /\ UNCHANGED <<fs, heap, meta, last, fs_lock, task, dir, file, cloned, reader>>

\* self.fs.write().await (mod.rs:516).
WriteLock(t) ==
    /\ writers[t].pc = "lock"
    /\ can_write(fs_lock)
    /\ fs_lock' = [fs_lock EXCEPT !.writer = TRUE]
    /\ writers' = [writers EXCEPT ![t].pc = "locked"]
    /\ UNCHANGED <<inode_serial, fs, heap, meta, last, task, dir, file, cloned, reader>>

\* The new file is inserted, the write guard is dropped, the call returns
\* (mod.rs:517-520).
WriteInsert(t) ==
    /\ writers[t].pc = "locked"
    /\ LET d == write_locked(Disk, writers[t].path, writers[t].contents,
                             writers[t].next_inode)
       IN  /\ fs' = d.fs
           /\ heap' = Collect(d.heap, d.fs, meta)
    /\ fs_lock' = [fs_lock EXCEPT !.writer = FALSE]
    /\ writers' = [writers EXCEPT ![t].pc = "done", ![t].res = "Ok"]
    /\ UNCHANGED <<inode_serial, meta, last, task, dir, file, cloned, reader>>

\* The caller has the results of the writes that were under way.
WritesJoin ==
    /\ \A t \in Tasks : writers[t].pc \in {"idle", "done"}
    /\ \E t \in Tasks : writers[t].pc = "done"
    /\ writers' = NoWriters
    /\ UNCHANGED <<inode_serial, fs, heap, meta, last, fs_lock, task, dir, file, cloned, reader>>

WriteStep ==
    \/ \E t \in Tasks, path \in Paths, contents \in Contents : WriteCall(t, path, contents)
    \/ \E t \in Tasks : WriteGuard(t)
    \/ \E t \in Tasks : WriteLock(t)
    \/ \E t \in Tasks : WriteInsert(t)
    \/ WritesJoin

NextWriters ==
    \/ CreateDir
    \/ WriteStep

SpecWriters == Init /\ [][NextWriters]_vars

\* ------------------------------------------------------------ MemFile

\* Vec::resize: the vector cut or filled with value to new_len elements.
resize(buffer, new_len, value) ==
    [i \in 1..new_len |-> IF i <= Len(buffer) THEN buffer[i] ELSE value]

\* copy_from_slice into buffer[position..position + len].
copy_from_slice(buffer, position, buf) ==
    [i \in 1..Len(buffer) |->
        IF position < i /\ i <= position + Len(buf) THEN buf[i - position]
        ELSE buffer[i]]

\* MemFile::poll_write on the heap h: the heap and the handle after it, and
\* the count it reports in n.
poll_write(h, this, buf) ==
    LET position == this.position
        buffer == resize(h[this.inode].buffer, position + Len(buf), 0)
    IN  [heap |-> [h EXCEPT ![this.inode].buffer =
                                copy_from_slice(buffer, position, buf)],
         this |-> [this EXCEPT !.position = @ + Len(buf)],
         res |-> "Ok", n |-> Len(buf), out |-> <<>>]

\* The positions of a u64 are counted modulo U64, which stands for 2^64: the
\* buffers of the model are far shorter than either.
U64 == 65536

\* MemFile::start_seek; a sum below zero wraps to a position past any length.
start_seek(h, this, from, pos) ==
    LET length == len(h, this.inode)
    IN  CASE from = "Start" -> [this EXCEPT !.position = pos]
          [] from = "End" ->
                [this EXCEPT !.position =
                    IF length + pos < 0 \/ length + pos > length
                    THEN length ELSE length + pos]
          [] from = "Current" -> [this EXCEPT !.position = (@ + pos) % U64]

\* MemFile::poll_complete: the position the seek reports.
poll_complete(this) == this.position

\* poll_read that leaves the position of the handle where it was.
poll_read_keeping_position(h, this, remaining) ==
    LET buffer == h[this.inode].buffer
        position == this.position
        sum == position + remaining
        end == IF sum < Len(buffer) THEN sum ELSE Len(buffer)
    IN  [heap |-> h, this |-> this, res |-> "Ok",
         n |-> IF position >= Len(buffer) THEN 0 ELSE end - position,
         out |-> IF position >= Len(buffer) THEN <<>>
                 ELSE SubSeq(buffer, position + 1, end)]

\* MemFile::poll_read into a ReadBuf with room for remaining bytes: the bytes
\* put into it are in out, their count in n.
poll_read(h, this, remaining) ==
    LET buffer == h[this.inode].buffer
        position == this.position
    IN  IF position >= Len(buffer)
        THEN [heap |-> h, this |-> this, res |-> "Ok", n |-> 0, out |-> <<>>]
        ELSE LET sum == position + remaining
                 end == IF sum < Len(buffer) THEN sum ELSE Len(buffer)
                 slice == SubSeq(buffer, position + 1, end)
             IN  [heap |-> h,
                  this |-> [this EXCEPT !.position = @ + Len(slice)],
                  res |-> "Ok", n |-> Len(slice), out |-> slice]

\* The buffers the file at /a has when the caller gets its MemFile.
Buffers == {<<>>, <<65>>, <<66, 67>>, <<65, 66, 67>>}

\* A disk with a file at /a, and a MemFile on it at position 0.
InitFile ==
    /\ inode_serial = 2
    /\ fs = [p \in {Root, <<"/", "a">>} |-> IF p = Root THEN 1 ELSE 2]
    /\ \E buffer \in Buffers :
           heap = [a \in {1, 2} |-> IF a = 1 THEN new_dir(0, Root)
                                    ELSE new_file(2, <<"/", "a">>, buffer)]
    /\ meta = 0
    /\ last = [op |-> "new", path |-> None, to |-> None, data |-> <<>>,
               mode |-> 0, res |-> "Ok", n |-> 0, out |-> <<>>,
               was |-> "Absent", to_was |-> "Absent"]
    /\ fs_lock = Unlocked
    /\ task = Idle
    /\ dir = NotAsked
    /\ writers = NoWriters
    /\ file = [inode |-> 2, position |-> 0]
    /\ cloned = NoFile
    /\ reader = NoReader

PollWriteOf(buf) ==
    LET r == poll_write(heap, file, buf)
    IN  /\ file.position + Len(buf) <= MaxBytes
        /\ heap' = r.heap
        /\ file' = r.this
        /\ last' = Call("poll_write", None, None, buf, 0, r)
        /\ UNCHANGED <<inode_serial, fs, meta, fs_lock, task, dir, writers, cloned, reader>>

StartSeekTo(from, pos) ==
    LET this == start_seek(heap, file, from, pos)
    IN  /\ this.position <= MaxBytes \/ this.position >= U64 - MaxBytes
        /\ file' = this
        /\ last' = Call("start_seek", None, None, <<>>, 0,
                        [res |-> "Ok", n |-> poll_complete(this), out |-> <<>>])
        /\ UNCHANGED <<inode_serial, fs, heap, meta, fs_lock, task, dir, writers, cloned, reader>>

\* The room of the caller's ReadBuf is kept in mode.
PollReadOf(remaining) ==
    LET r == poll_read(heap, file, remaining)
    IN  /\ heap' = r.heap
        /\ file' = r.this
        /\ last' = Call("poll_read", None, None, <<>>, remaining, r)
        /\ UNCHANGED <<inode_serial, fs, meta, fs_lock, task, dir, writers, cloned, reader>>

PollRead == \E remaining \in 0..MaxBytes : PollReadOf(remaining)

PollWrite == \E buf \in Contents \cup {<<>>} : PollWriteOf(buf)

StartSeek ==
    \E from \in {"Start", "End", "Current"}, pos \in (0 - MaxBytes)..MaxBytes :
        (from = "Start" => pos >= 0) /\ StartSeekTo(from, pos)

NextFile ==
    \/ PollWrite
    \/ StartSeek
    \/ PollRead

SpecFile == InitFile /\ [][NextFile]_vars

\* ------------------------------------------------- a MemFile and its clone

\* try_clone that gives the new handle an inode of its own, a copy.
try_clone_copying(h, this) ==
    LET a == NewArc(h)
    IN  [heap |-> [b \in (DOMAIN h) \cup {a} |->
                      IF b = a THEN h[this.inode] ELSE h[b]],
         this |-> [inode |-> a, position |-> this.position],
         res |-> "Ok", n |-> 0, out |-> <<>>]

\* MemFile::try_clone: a handle on the same Arc, at the same position.
try_clone(h, this) ==
    [heap |-> h,
     this |-> [inode |-> this.inode, position |-> this.position],
     res |-> "Ok", n |-> 0, out |-> <<>>]

\* The name under which the calls on the clone are recorded.
OnClone == <<"cloned">>

TryClone ==
    LET r == try_clone(heap, file)
    IN  /\ cloned = NoFile
        /\ heap' = r.heap
        /\ cloned' = r.this
        /\ last' = Call("try_clone", None, None, <<>>, 0, r)
        /\ UNCHANGED <<inode_serial, fs, meta, fs_lock, task, dir, writers, file, reader>>

ClonePollWriteOf(buf) ==
    LET r == poll_write(heap, cloned, buf)
    IN  /\ cloned # NoFile
        /\ cloned.position + Len(buf) <= MaxBytes
        /\ heap' = r.heap
        /\ cloned' = r.this
        /\ last' = Call("poll_write", OnClone, None, buf, 0, r)
        /\ UNCHANGED <<inode_serial, fs, meta, fs_lock, task, dir, writers, file, reader>>

ClonePollReadOf(remaining) ==
    LET r == poll_read(heap, cloned, remaining)
    IN  /\ cloned # NoFile
        /\ heap' = r.heap
        /\ cloned' = r.this
        /\ last' = Call("poll_read", OnClone, None, <<>>, remaining, r)
        /\ UNCHANGED <<inode_serial, fs, meta, fs_lock, task, dir, writers, file, reader>>

CloneStartSeekTo(from, pos) ==
    LET this == start_seek(heap, cloned, from, pos)
    IN  /\ cloned # NoFile
        /\ this.position <= MaxBytes
        /\ cloned' = this
        /\ last' = Call("start_seek", OnClone, None, <<>>, 0,
                        [res |-> "Ok", n |-> poll_complete(this), out |-> <<>>])
        /\ UNCHANGED <<inode_serial, fs, heap, meta, fs_lock, task, dir, writers, file, reader>>

ClonePollWrite == \E buf \in Contents : ClonePollWriteOf(buf)
ClonePollRead == \E remaining \in 1..MaxBytes : ClonePollReadOf(remaining)
CloneStartSeek == \E pos \in 0..MaxBytes : CloneStartSeekTo("Start", pos)

NextClone ==
    \/ TryClone
    \/ PollWrite
    \/ PollRead
    \/ ClonePollWrite
    \/ ClonePollRead
    \/ CloneStartSeek

SpecClone == InitFile /\ [][NextClone]_vars

\* ------------------------------------- metadata beside writes that wait

\* A task calls metadata(path) (mod.rs:267).
MetadataCall(path) ==
    /\ Returned
    /\ task = Idle
    /\ reader.pc = "idle"
    /\ reader' = [NoReader EXCEPT !.pc = "outer", !.path = path]
    /\ UNCHANGED <<inode_serial, fs, heap, meta, last, fs_lock, task, dir, writers,
                   file, cloned>>

\* make_sure_path_exists takes its read guard (mod.rs:92) and keeps it.
GuardOuter ==
    /\ reader.pc = "outer"
    /\ can_read(fs_lock)
    /\ fs_lock' = [fs_lock EXCEPT !.readers = @ + 1]
    /\ reader' = [reader EXCEPT !.pc = IF parent(reader.path) = None
                                     THEN "check" ELSE "inner",
                              !.at = 1]
    /\ UNCHANGED <<inode_serial, fs, heap, meta, last, task, dir, writers, file,
                   cloned>>

\* find_lowest_non_existing_parent looks one component of the parent up
\* under a read lock it takes for the look (mod.rs:63), the guard of
\* make_sure_path_exists still held; a parent that is absent ends the call
\* and drops that guard (mod.rs:95-100).
GuardInner ==
    /\ reader.pc = "inner"
    /\ can_read(fs_lock)
    /\ IF SubSeq(reader.path, 1, reader.at) \notin DOMAIN fs
       THEN /\ reader' = [reader EXCEPT !.pc = "done", !.res = "NotFound"]
            /\ fs_lock' = [fs_lock EXCEPT !.readers = @ - 1]
       ELSE /\ reader' = IF reader.at = Len(parent(reader.path))
                        THEN [reader EXCEPT !.pc = "check"]
                        ELSE [reader EXCEPT !.at = @ + 1]
            /\ UNCHANGED fs_lock
    /\ UNCHANGED <<inode_serial, fs, heap, meta, last, task, dir, writers, file,
                   cloned>>

\* The path itself is looked up through the guard held, which is dropped on
\* return (mod.rs:103-110).
GuardCheck ==
    /\ reader.pc = "check"
    /\ fs_lock' = [fs_lock EXCEPT !.readers = @ - 1]
    /\ reader' = IF reader.path \in DOMAIN fs
                THEN [reader EXCEPT !.pc = "read"]
                ELSE [reader EXCEPT !.pc = "done", !.res = "NotFound"]
    /\ UNCHANGED <<inode_serial, fs, heap, meta, last, task, dir, writers, file,
                   cloned>>

\* metadata takes the read lock again, clones the Arc at the path and
\* returns it (mod.rs:271-274).
MetadataRead ==
    /\ reader.pc = "read"
    /\ can_read(fs_lock)
    /\ IF reader.path \in DOMAIN fs
       THEN /\ meta' = fs[reader.path]
            /\ heap' = Collect(heap, fs, fs[reader.path])
            /\ reader' = [reader EXCEPT !.pc = "done", !.res = "Ok"]
       ELSE /\ reader' = [reader EXCEPT !.pc = "done", !.res = "Panic"]
            /\ UNCHANGED <<meta, heap>>
    /\ UNCHANGED <<inode_serial, fs, last, fs_lock, task, dir, writers, file, cloned>>

\* The caller has the result of the metadata call.
MetadataJoin ==
    /\ reader.pc = "done"
    /\ reader' = NoReader
    /\ UNCHANGED <<inode_serial, fs, heap, meta, last, fs_lock, task, dir, writers,
                   file, cloned>>

\* self.fs.write().await (mod.rs:516): the table is taken when it is free,
\* and otherwise the task waits in the queue of the lock.
WriteAsk(t) ==
    /\ writers[t].pc = "lock"
    /\ IF can_write(fs_lock) /\ fs_lock.waiting = 0
       THEN /\ fs_lock' = [fs_lock EXCEPT !.writer = TRUE]
            /\ writers' = [writers EXCEPT ![t].pc = "locked"]
       ELSE /\ fs_lock' = [fs_lock EXCEPT !.waiting = @ + 1]
            /\ writers' = [writers EXCEPT ![t].pc = "queued"]
    /\ UNCHANGED <<inode_serial, fs, heap, meta, last, task, dir, file, cloned, reader>>

\* The table is given to a writer that waited, once nobody holds it.
WriteGranted(t) ==
    /\ writers[t].pc = "queued"
    /\ can_write(fs_lock)
    /\ fs_lock' = [fs_lock EXCEPT !.writer = TRUE, !.waiting = @ - 1]
    /\ writers' = [writers EXCEPT ![t].pc = "locked"]
    /\ UNCHANGED <<inode_serial, fs, heap, meta, last, task, dir, file, cloned, reader>>

\* The steps of the metadata call that is under way, and those of the write
\* task t has under way.
MetadataRun == GuardOuter \/ GuardInner \/ GuardCheck \/ MetadataRead

WriteRun(t) == WriteGuard(t) \/ WriteAsk(t) \/ WriteGranted(t) \/ WriteInsert(t)

NextFairLock ==
    \/ \E path \in Paths : MetadataCall(path)
    \/ GuardOuter
    \/ GuardInner
    \/ GuardCheck
    \/ MetadataRead
    \/ MetadataJoin
    \/ \E t \in Tasks, path \in Paths, contents \in Contents : WriteCall(t, path, contents)
    \/ \E t \in Tasks : WriteGuard(t)
    \/ \E t \in Tasks : WriteAsk(t)
    \/ \E t \in Tasks : WriteGranted(t)
    \/ \E t \in Tasks : WriteInsert(t)
    \/ WritesJoin

\* The executor polls every task that can go on, and the lock is fair.
SpecFairLock ==
    /\ Init
    /\ [][NextFairLock]_vars
    /\ WF_vars(MetadataRun)
    /\ \A t \in Tasks : WF_vars(WriteRun(t))

\* ------------------------------------------- links made and moved about

\* The calls that make a link, take an entry away or move one, and the two
\* that follow links, on a disk that gives out serials up to MaxLinkSerial.
SymlinkOn ==
    \E src \in Paths, dst \in Paths :
        LET r == symlink(Disk, src, dst)
        IN  CommitWithin(MaxLinkSerial, r, meta,
                         Call("symlink", src, dst, <<>>, 0, r))

RemoveFileOn ==
    \E path \in Paths :
        LET r == remove_file(Disk, path)
        IN  CommitWithin(MaxLinkSerial, r, meta,
                         Call("remove_file", path, None, <<>>, 0, r))

RenameOn ==
    \E from \in Paths, to \in Paths :
        LET r == rename(Disk, from, to)
        IN  CommitWithin(MaxLinkSerial, r, meta,
                         Call("rename", from, to, <<>>, 0, r))

CanonicalizeOn ==
    \E path \in Paths :
        LET r == canonicalize(Disk, path)
        IN  CommitWithin(MaxLinkSerial, r, meta,
                         Call("canonicalize", path, None, <<>>, 0, r))

TryExistsOn ==
    \E path \in Paths :
        LET r == try_exists(Disk, path)
        IN  CommitWithin(MaxLinkSerial, r, meta,
                         Call("try_exists", path, None, <<>>, 0, r))

NextCycle ==
    \/ SymlinkOn
    \/ RemoveFileOn
    \/ RenameOn
    \/ CanonicalizeOn
    \/ TryExistsOn

SpecCycle == Init /\ [][NextCycle]_vars

\* ------------------------------------- the OS-backed disk and its scope

\* TokioFloppyDisk.scope of the disk of the test: Some("/tmp").
Scope == <<"/", "tmp">>

\* The paths the calls are given: with and without the leading "/", with the
\* scope before them, with ".." in them.
ScopePaths ==
    {<<"/">>, <<"/", "a">>, <<"a">>, <<"tmp", "a">>, <<"/", "tmp">>,
     <<"/", "tmp", "a">>, <<"/", "..", "a">>, <<"/", "tmp", "..", "a">>}

\* Path::strip_prefix("/").unwrap_or(path): the path without its root.
strip_prefix_root(path) ==
    IF path # <<>> /\ path[1] = "/" THEN Tail(path) ELSE path

\* PathBuf::join: an absolute path takes the place of the base.
join(base, path) ==
    IF path # <<>> /\ path[1] = "/" THEN path ELSE base \o path

\* scoped! that joins every path to the scope, as open does.
scoped_always_joining(scope, x) ==
    IF scope # None THEN join(scope, strip_prefix_root(x)) ELSE x

\* The macro scoped!: the path the call goes on with; scope is None when the
\* disk has no scope.
scoped(scope, x) ==
    IF scope # None
    THEN IF starts_with(x, scope) THEN x
         ELSE join(scope, strip_prefix_root(x))
    ELSE x

\* The path TokioOpenOptions::open opens.
open_path(scope, path) ==
    IF scope # None THEN join(scope, strip_prefix_root(path)) ELSE path

\* The file the host's kernel reaches by an absolute path: ".." leads to the
\* parent, at the root to the root (the host of the model has no symlinks).
RECURSIVE host_resolve(_, _)
host_resolve(path, out) ==
    IF path = <<>> THEN out
    ELSE IF Head(path) = ".."
    THEN host_resolve(Tail(path), IF Len(out) > 1 THEN SubSeq(out, 1, Len(out) - 1) ELSE out)
    ELSE IF Head(path) = "/" THEN host_resolve(Tail(path), Root)
    ELSE host_resolve(Tail(path), Append(out, Head(path)))

\* tokio::fs::write on the host: it needs the directory of the file.
host_write(self, path, contents) ==
    LET at == host_resolve(path, Root)
    IN  IF KindAt(self, parent(at)) # "Dir" THEN Outcome(self, "NotFound", 0, <<>>)
        ELSE IF KindAt(self, at) = "Dir" THEN Outcome(self, "Other", 0, <<>>)
        ELSE Outcome(insert_inode(self, at, new_file(0, at, contents)), "Ok", 0, <<>>)

\* tokio::fs::read_to_string on the host.
host_read_to_string(self, path) ==
    LET at == host_resolve(path, Root)
    IN  IF KindAt(self, at) = "File" THEN Outcome(self, "Ok", 0, InodeAt(self, at).buffer)
        ELSE IF KindAt(self, at) = "Absent" THEN Outcome(self, "NotFound", 0, <<>>)
        ELSE Outcome(self, "Other", 0, <<>>)

\* tokio::fs::remove_file on the host.
host_remove_file(self, path) ==
    LET at == host_resolve(path, Root)
    IN  IF KindAt(self, at) = "File" THEN Outcome(remove_key(self, at), "Ok", 0, <<>>)
        ELSE IF KindAt(self, at) = "Absent" THEN Outcome(self, "NotFound", 0, <<>>)
        ELSE Outcome(self, "Other", 0, <<>>)

\* OpenOptions::open on the host, for reading.
host_open(self, path) ==
    LET at == host_resolve(path, Root)
    IN  IF KindAt(self, at) = "Absent" THEN Outcome(self, "NotFound", 0, <<>>)
        ELSE Outcome(self, "Ok", 0, <<>>)

\* TokioFloppyDisk::write, read_to_string and remove_file, and
\* TokioOpenOptions::open, on the host self with the scope of the disk.
tokio_write(self, scope, path, contents) == host_write(self, scoped(scope, path), contents)
tokio_read_to_string(self, scope, path) == host_read_to_string(self, scoped(scope, path))
tokio_remove_file(self, scope, path) == host_remove_file(self, scoped(scope, path))
tokio_open(self, scope, path) == host_open(self, open_path(scope, path))

\* The host: its root and the directory /tmp, no file yet.
InitScope ==
    /\ inode_serial = 1
    /\ fs = [p \in {Root, Scope} |-> IF p = Root THEN 1 ELSE 2]
    /\ heap = [a \in {1, 2} |-> IF a = 1 THEN new_dir(0, Root) ELSE new_dir(0, Scope)]
    /\ meta = 0
    /\ last = [op |-> "new", path |-> None, to |-> None, data |-> <<>>,
               mode |-> 0, res |-> "Ok", n |-> 0, out |-> <<>>,
               was |-> "Absent", to_was |-> "Absent"]
    /\ fs_lock = Unlocked
    /\ task = Idle
    /\ dir = NotAsked
    /\ writers = NoWriters
    /\ file = NoFile
    /\ cloned = NoFile
    /\ reader = NoReader

\* The calls keep the path the host was given in to.
TokioWriteAt(path, contents) ==
    LET r == tokio_write(Disk, Scope, path, contents)
    IN  Commit(r, meta, Call("tokio_write", path, scoped(Scope, path), contents, 0, r))

TokioReadToStringAt(path) ==
    LET r == tokio_read_to_string(Disk, Scope, path)
    IN  Commit(r, meta, Call("tokio_read_to_string", path, scoped(Scope, path), <<>>, 0, r))

TokioRemoveFileAt(path) ==
    LET r == tokio_remove_file(Disk, Scope, path)
    IN  Commit(r, meta, Call("tokio_remove_file", path, scoped(Scope, path), <<>>, 0, r))

TokioOpenAt(path) ==
    LET r == tokio_open(Disk, Scope, path)
    IN  Commit(r, meta, Call("tokio_open", path, open_path(Scope, path), <<>>, 0, r))

TokioWrite == \E path \in ScopePaths, contents \in Contents : TokioWriteAt(path, contents)
TokioReadToString == \E path \in ScopePaths : TokioReadToStringAt(path)
TokioRemoveFile == \E path \in ScopePaths : TokioRemoveFileAt(path)
TokioOpen == \E path \in ScopePaths : TokioOpenAt(path)

NextScope ==
    \/ TokioWrite
    \/ TokioReadToString
    \/ TokioRemoveFile
    \/ TokioOpen

SpecScope == InitScope /\ [][NextScope]_vars

\* ---------------------------------------------------------------- claims

\* The proper ancestors of a path, the root included.
Ancestors(path) == {SubSeq(path, 1, i) : i \in 1..(Len(path) - 1)}

\* The entry at key k is the same Arc, holding the same inode, after the step.
Untouched(k) ==
    /\ k \in DOMAIN fs'
    /\ fs'[k] = fs[k]
    /\ heap'[fs'[k]] = heap[fs[k]]

\* C1: in every reachable state every non-root key of the table has all its
\* ancestors in the table, as Directory entries.
AncestorsAreDirectories ==
    \A k \in DOMAIN fs :
        \A anc \in Ancestors(k) : KindAt(Disk, anc) = "Dir"

\* C2: after a successful write(P, B) a read(P) made at once returns exactly
\* B, whatever P held before the write.
WriteReadRoundTrip ==
    (last.op = "write" /\ last.res = "Ok") =>
        LET r == read(Disk, last.path)
        IN  r.res = "Ok" /\ r.out = last.data

\* A write has replaced a file that held other bytes.
WriteReadRoundTripWitness ==
    /\ last.op = "write"
    /\ last.res = "Ok"
    /\ last.was = "File"
    /\ inode_serial = 3
    /\ last.data = <<65>>

\* C4: a successful rename(from, to) leaves from absent (metadata(from)
\* fails) and to holding an entry of the kind, bytes and permissions from
\* held, under another serial; every other key keeps its entry unchanged.
RenameMoves ==
    [][(last'.op = "rename" /\ last'.res = "Ok") =>
        LET from == last'.path
            to == last'.to
            old == InodeAt(Disk, from)
            new == InodeAt(Disk', to)
        IN  /\ from \notin DOMAIN fs'
            /\ metadata(Disk', from).res = "NotFound"
            /\ to \in DOMAIN fs'
            /\ new.kind = old.kind
            /\ new.buffer = old.buffer
            /\ new.mode = old.mode
            /\ new.serial # old.serial
            /\ DOMAIN fs' = ((DOMAIN fs) \ {from}) \cup {to}
            /\ \A k \in (DOMAIN fs) \ {from} : Untouched(k)]_vars

\* A file whose mode was set has been renamed beside the root.
RenameMovesWitness ==
    /\ last.op = "rename"
    /\ last.res = "Ok"
    /\ last.was = "File"
    /\ Root \in DOMAIN fs
    /\ InodeAt(Disk, last.to).mode = 511

\* C6: copy(from, to) of a present from succeeds for every to (absent,
\* present, or from itself) and returns the length of from's buffer; to then
\* holds a File with from's bytes and permissions under a fresh serial, and
\* the entry at from is unchanged.
CopyAlwaysSucceeds ==
    [][(last'.op = "copy" /\ make_sure_path_exists(Disk, last'.path) = "Ok") =>
        LET from == last'.path
            to == last'.to
            old == InodeAt(Disk, from)
        IN  /\ last'.res = "Ok"
            /\ last'.n = Len(old.buffer)
            /\ to \in DOMAIN fs'
            /\ InodeAt(Disk', to).kind = "File"
            /\ InodeAt(Disk', to).buffer = old.buffer
            /\ InodeAt(Disk', to).mode = old.mode
            /\ InodeAt(Disk', to).serial > inode_serial
            /\ (from # to => Untouched(from))]_vars

\* C7: no two entries of the table have the same serial, and every serial
\* given to a new entry is greater than every serial given before it.
SerialsInUse == {heap[a].serial : a \in DOMAIN heap}
SerialsUnique ==
    /\ \A k1, k2 \in DOMAIN fs :
            InodeAt(Disk, k1).serial = InodeAt(Disk, k2).serial => k1 = k2
    /\ \A n \in SerialsInUse : n <= inode_serial
SerialsGrow ==
    \A k \in DOMAIN fs' :
        (k \notin DOMAIN fs \/ fs'[k] # fs[k]) =>
            /\ InodeAt(Disk', k).serial > inode_serial
            /\ \A n \in SerialsInUse : InodeAt(Disk', k).serial > n
SerialsFresh == []SerialsUnique /\ [][SerialsGrow]_vars

\* Two entries made one after the other stand beside the root.
SerialsFreshWitness ==
    /\ inode_serial = 3
    /\ Cardinality(DOMAIN fs) = 3

\* C9: a successful create_dir_all(P) leaves P and every ancestor of P in
\* the table as directories (metadata succeeds on each), leaves the entries
\* that were there unchanged, and creates the missing ones parent first.
CreateDirAllMakesDirectories ==
    [][(last'.op = "create_dir_all" /\ last'.res = "Ok") =>
        LET path == last'.path
            made == last'.out
        IN  /\ \A p \in Ancestors(path) \cup {path} :
                    /\ metadata(Disk', p).res = "Ok"
                    /\ KindAt(Disk', p) = "Dir"
            /\ \A k \in DOMAIN fs : Untouched(k)
            /\ \A i \in 1..Len(made) :
                    \/ parent(made[i]) = None
                    \/ parent(made[i]) \in DOMAIN fs
                    \/ \E j \in 1..(i - 1) : made[j] = parent(made[i])]_vars

\* C10: a remove_dir_all(P) on a present P succeeds and leaves no key at or
\* below P (component-wise), so metadata fails on each; every key outside
\* the subtree keeps its entry unchanged.
RemoveDirAllRemovesSubtree ==
    [][(last'.op = "remove_dir_all"
            /\ make_sure_path_exists(Disk, last'.path) = "Ok") =>
        LET path == last'.path
        IN  /\ last'.res = "Ok"
            /\ \A k \in Paths :
                    starts_with(k, path) =>
                        /\ k \notin DOMAIN fs'
                        /\ metadata(Disk', k).res = "NotFound"
            /\ \A k \in DOMAIN fs : ~starts_with(k, path) => Untouched(k)]_vars

\* /a has been removed with what was below it, and /ab is still there.
RemoveDirAllRemovesSubtreeWitness ==
    /\ last.op = "remove_dir_all"
    /\ last.res = "Ok"
    /\ last.path = <<"/", "a">>
    /\ <<"/", "ab">> \in DOMAIN fs

\* Both paths name children of the root, which read_dir("/") lists.
BesideRoot(from, to) == parent(from) = Root /\ parent(to) = Root /\ from # to

\* C3: whenever a read_dir("/") running beside a rename(from, to) whose
\* guards passed (from present, to absent) has collected the keys of the
\* table, before the rename's return or after it, it has collected exactly
\* one of from and to: never both, never neither.
RenameIsAtomic ==
    dir.pc = "collected" =>
        /\ (task.pc \in {"to_ok", "locked", "removed"}
                /\ BesideRoot(task.from, task.to)) =>
              ((task.from \in dir.seen) # (task.to \in dir.seen))
        /\ (task = Idle /\ last.op = "rename" /\ last.res = "Ok"
                /\ BesideRoot(last.path, last.to)) =>
              ((last.path \in dir.seen) # (last.to \in dir.seen))

\* read_dir was called while the rename had removed from and not yet
\* inserted to; it collected the keys once the rename had returned.
RenameIsAtomicWitness ==
    /\ dir.pc = "collected"
    /\ dir.asked = "removed"
    /\ last.op = "rename"
    /\ last.res = "Ok"
    /\ BesideRoot(last.path, last.to)
    /\ last.to \in dir.seen

\* C5: a MemMetadata taken at from before a successful rename(from, to)
\* shares after it the entry the table holds at to: set_permissions(to, m)
\* made through the table is seen by permissions() of the handle.
HandleFollowsRename ==
    [][(last'.op = "rename" /\ last'.res = "Ok" /\ meta # 0
            /\ meta = fs[last'.path]) =>
        /\ meta' = fs'[last'.to]
        /\ \A perm \in Modes :
              permissions(set_permissions(Disk', last'.to, perm).heap, meta') = perm]_vars

\* C8: every call returns what the OS-backed backend returns for it on the
\* same sequence of calls; that backend hands back the io::Result of
\* tokio::fs, a success or a failure kind, from every call.
IoResults == {"Ok", "NotFound", "AlreadyExists", "InvalidInput", "Other"}
SameOutcomeAsOsBackend == last.res \in IoResults

\* The keys of the table that are direct children of path.
Children(path) == {k \in DOMAIN fs : parent(k) = path}

\* The table t, with the inodes in h, is the table of the state but for the
\* keys in gone, which it does not have.
SameBut(t, h, gone) ==
    /\ DOMAIN t = (DOMAIN fs) \ gone
    /\ \A k \in DOMAIN t : t[k] = fs[k] /\ h[t[k]] = heap[fs[k]]

\* The disk is one a successful call has left (or the new disk). A call that
\* failed or only read left the disk of the state before it, so what is
\* stated of every path on these disks is stated of every disk reached.
DiskLeft == Returned

\* C11: remove_dir(P) on a present P fails with InvalidInput exactly when the
\* table has a direct child of P, and then removes nothing; otherwise it
\* succeeds and removes the key P and no other.
RemoveDirChecksChildren ==
    DiskLeft =>
        \A path \in Paths :
            make_sure_path_exists(Disk, path) = "Ok" =>
                LET r == remove_dir(Disk, path)
                IN  IF Children(path) # {}
                    THEN r.res = "InvalidInput" /\ SameBut(r.fs, r.heap, {})
                    ELSE r.res = "Ok" /\ SameBut(r.fs, r.heap, {path})

\* remove_dir("/a") was refused while /a/b was in the table.
RemoveDirChecksChildrenWitness ==
    /\ last.op = "remove_dir"
    /\ last.res = "InvalidInput"
    /\ last.path = <<"/", "a">>
    /\ last.was = "Dir"
    /\ <<"/", "a", "b">> \in DOMAIN fs

\* What a call whose target path must be absent returns, by the table alone.
AbsentTarget(path) ==
    IF \E anc \in Ancestors(path) : anc \notin DOMAIN fs THEN "NotFound"
    ELSE IF path \in DOMAIN fs THEN "AlreadyExists"
    ELSE "Ok"

\* C12: create_dir(P), and rename(S, P) and symlink(S, P) for a present S,
\* fail with NotFound when an ancestor of P is missing, whether P is present
\* or not; otherwise with AlreadyExists when P is present; otherwise they
\* succeed, and create_dir(P) leaves a Directory entry at P.
AbsentTargetGuard ==
    DiskLeft =>
        \A path \in Paths :
            /\ create_dir(Disk, path).res = AbsentTarget(path)
            /\ AbsentTarget(path) = "Ok" => KindAt(create_dir(Disk, path), path) = "Dir"
            /\ \A src \in Paths :
                  make_sure_path_exists(Disk, src) = "Ok" =>
                    /\ rename(Disk, src, path).res = AbsentTarget(path)
                    /\ symlink(Disk, src, path).res = AbsentTarget(path)

\* create_dir(P) returned NotFound for a P that is in the table below a
\* missing ancestor: the ancestor check came first.
AbsentTargetGuardWitness ==
    /\ last.op = "create_dir"
    /\ last.res = "NotFound"
    /\ last.path \in DOMAIN fs

\* C13: write(P, B) fails, with NotFound and the table as it was, exactly
\* when an ancestor of P is missing; otherwise it succeeds whatever P holds,
\* and P then maps to a new File entry with bytes B under a serial no entry
\* has or had, every other key keeping its entry.
WriteReplaces ==
    DiskLeft =>
        \A path \in Paths, contents \in Contents :
            LET r == write(Disk, path, contents)
            IN  IF \E anc \in Ancestors(path) : anc \notin DOMAIN fs
                THEN r.res = "NotFound" /\ SameBut(r.fs, r.heap, {})
                ELSE /\ r.res = "Ok"
                     /\ path \in DOMAIN r.fs
                     /\ r.fs[path] \notin DOMAIN heap
                     /\ InodeAt(r, path).kind = "File"
                     /\ InodeAt(r, path).buffer = contents
                     /\ InodeAt(r, path).serial > inode_serial
                     /\ InodeAt(r, path).serial \notin SerialsInUse
                     /\ \A k \in (DOMAIN fs) \ {path} :
                            r.fs[k] = fs[k] /\ r.heap[r.fs[k]] = heap[fs[k]]
                     /\ DOMAIN r.fs = (DOMAIN fs) \cup {path}

\* A write has replaced a directory that had a child in the table.
WriteReplacesWitness ==
    /\ last.op = "write"
    /\ last.res = "Ok"
    /\ last.was = "Dir"
    /\ Children(last.path) # {}
    /\ InodeAt(Disk, last.path).buffer = last.data

\* C14, as stated: read(P) fails with NotFound for every path P that was not
\* written before; here on a disk on which nothing was written yet (no
\* serial was given out).
ReadOfUnwrittenFails ==
    (last.op = "read" /\ inode_serial = 1) => last.res = "NotFound"

\* C14, amended: read(P) fails with NotFound, and returns no bytes, for every
\* path P that is not a key of the table or has an ancestor that is not.
ReadOfAbsentFails ==
    DiskLeft =>
        \A path \in Paths :
            (path \notin DOMAIN fs \/ \E anc \in Ancestors(path) : anc \notin DOMAIN fs) =>
                LET r == read(Disk, path)
                IN  r.res = "NotFound" /\ r.out = <<>>

\* read was refused for a path that is not in a table that holds a file.
ReadOfAbsentFailsWitness ==
    /\ last.op = "read"
    /\ last.res = "NotFound"
    /\ last.path \notin DOMAIN fs
    /\ \E k \in DOMAIN fs : KindAt(Disk, k) = "File"

\* C15: read(P) and read_to_string(P) on a present P that holds a Directory
\* or a Symlink fail with InvalidInput and return no content.
ReadRefusesNonFiles ==
    (/\ last.op \in {"read", "read_to_string"}
     /\ last.was \in {"Dir", "Symlink"}
     /\ make_sure_path_exists(Disk, last.path) = "Ok") =>
        last.res = "InvalidInput" /\ last.out = <<>>

\* C16: read_to_string(P) on a present File returns the bytes of the file
\* as text when they are valid UTF-8, and the error InvalidData when they
\* are not.
ReadToStringDecodes ==
    (/\ last.op = "read_to_string"
     /\ last.was = "File"
     /\ make_sure_path_exists(Disk, last.path) = "Ok") =>
        IF from_utf8_is_ok(InodeAt(Disk, last.path).buffer)
        THEN last.res = "Ok" /\ last.out = InodeAt(Disk, last.path).buffer
        ELSE last.res = "InvalidData"

\* The disk an operation returned.
DiskOf(r) == [fs |-> r.fs, heap |-> r.heap, serial |-> r.serial]

\* The ways the entry at src is removed or renamed on the disk d.
Removals(d, src) ==
    {remove_file(d, src), remove_dir(d, src), remove_dir_all(d, src)}
        \cup {rename(d, src, to) : to \in Paths}

\* symlink(src, dst) and then read_link(dst) return src as given, and so does
\* read_link(dst) after src was removed or renamed, for the dst that are
\* asked about.
LinkKeepsTarget(src, dst, asked) ==
    (make_sure_path_exists(Disk, src) = "Ok"
            /\ make_sure_path_doesnt_exist(Disk, dst) = "Ok") =>
        LET made == symlink(Disk, src, dst)
        IN  /\ made.res = "Ok"
            /\ read_link(DiskOf(made), dst).res = "Ok"
            /\ read_link(DiskOf(made), dst).out = src
            /\ \A r \in Removals(DiskOf(made), src) :
                    (r.res = "Ok" /\ asked) =>
                        /\ read_link(DiskOf(r), dst).res = "Ok"
                        /\ read_link(DiskOf(r), dst).out = src

\* C17, as stated: for every present src and every absent dst whose
\* ancestors exist, read_link(dst) returns src after symlink(src, dst), and
\* still after src was removed or renamed.
LinkKeepsTargetAlways ==
    DiskLeft =>
        \A src \in Paths, dst \in Paths : LinkKeepsTarget(src, dst, TRUE)

\* C17, amended: the same, where after the removal or rename of src it is
\* asked only of a dst that does not lie below src.
LinkKeepsTargetBeside ==
    DiskLeft =>
        \A src \in Paths, dst \in Paths :
            LinkKeepsTarget(src, dst, ~starts_with(dst, src))

\* A symlink that was the target of another symlink has been removed, and
\* read_link of the other still returns its path.
LinkKeepsTargetBesideWitness ==
    /\ last.op = "remove_file"
    /\ last.res = "Ok"
    /\ last.was = "Symlink"
    /\ \E dst \in DOMAIN fs :
            /\ KindAt(Disk, dst) = "Symlink"
            /\ read_link(Disk, dst).res = "Ok"
            /\ read_link(Disk, dst).out = last.path

\* The path read from its last component to its first, pending counting the
\* ".." that have not met a name yet: a name before a pending ".." goes with
\* it, the other names stay, "." and the ".." left over go, the root stays.
RECURSIVE Absorbed(_, _)
Absorbed(path, pending) ==
    IF path = <<>> THEN <<>>
    ELSE LET component == path[Len(path)]
             front == SubSeq(path, 1, Len(path) - 1)
         IN  IF component = "." THEN Absorbed(front, pending)
             ELSE IF component = ".." THEN Absorbed(front, pending + 1)
             ELSE IF component = "/" THEN Root
             ELSE IF pending > 0 THEN Absorbed(front, pending - 1)
             ELSE Append(Absorbed(front, 0), component)

\* /a/b followed by n times "..".
Climbing(n) == <<"/", "a", "b">> \o [i \in 1..n |-> ".."]

Dangling == \E k \in DOMAIN fs :
    KindAt(Disk, k) = "Symlink" /\ InodeAt(Disk, k).symlink_target \notin DOMAIN fs

\* C19: canonicalize(P) returns the error NotFound when the chain of
\* symlinks from P reaches a target that is missing from the table, and
\* otherwise returns a path whose entry is not a Symlink.
CanonicalizeResolves ==
    last.op = "canonicalize" =>
        \/ last.res = "Ok" /\ KindAt(Disk, last.out) # "Symlink"
        \/ last.res = "NotFound" /\ Dangling

\* C20: symlink_metadata(D) of a present symlink D whose target S is present
\* returns the handle of the entry the table holds at S: its kind and its
\* byte length are those of S, not those of the link.
SymlinkMetadataOfTarget ==
    DiskLeft =>
        \A path \in Paths :
            LET target == InodeAt(Disk, path).symlink_target
                r == symlink_metadata(Disk, path)
            IN  (/\ make_sure_path_exists(Disk, path) = "Ok"
                 /\ KindAt(Disk, path) = "Symlink"
                 /\ make_sure_path_exists(Disk, target) = "Ok") =>
                    /\ r.res = "Ok"
                    /\ r.n = fs[target]
                    /\ file_type(heap, r.n) = InodeAt(Disk, target).kind
                    /\ len(heap, r.n) = Len(InodeAt(Disk, target).buffer)

\* symlink_metadata of a link to a file of two bytes returned the file.
SymlinkMetadataOfTargetWitness ==
    /\ last.op = "symlink_metadata"
    /\ last.res = "Ok"
    /\ last.was = "Symlink"
    /\ file_type(heap, last.n) = "File"
    /\ len(heap, last.n) = 2

\* What the claim allows metadata or symlink_metadata to return as r for path:
\* NotFound for a path that is absent or below an absent ancestor, Other only
\* for a symlink whose target is missing, and for every other present path a
\* handle that reports the kind and the length of the entry (for a symlink,
\* those of the link or those of its target).
MetadataAllowed(r, path) ==
    LET inode == InodeAt(Disk, path)
        reports(of) == /\ file_type(heap, r.n) = of.kind
                       /\ len(heap, r.n) = Len(of.buffer)
    IN  IF make_sure_path_exists(Disk, path) # "Ok"
        THEN r.res = "NotFound"
        ELSE IF /\ inode.kind = "Symlink"
                /\ make_sure_path_exists(Disk, inode.symlink_target) # "Ok"
        THEN r.res \in {"Other", "Ok"}
        ELSE /\ r.res = "Ok"
             /\ \/ reports(inode)
                \/ /\ inode.kind = "Symlink"
                   /\ reports(InodeAt(Disk, inode.symlink_target))

\* C21: metadata(P) and symlink_metadata(P) fail only with NotFound (P or an
\* ancestor of P is absent) or with Other (P is a symlink whose target is
\* missing); on every other present P both succeed and report the kind and
\* the length of the entry.
MetadataFailsOnlyWhenAbsent ==
    DiskLeft =>
        \A path \in Paths :
            /\ MetadataAllowed(metadata(Disk, path), path)
            /\ MetadataAllowed(symlink_metadata(Disk, path), path)

\* The path the table leads to from path through n symlinks at most; a path
\* that is absent or is no symlink leads to itself.
RECURSIVE Follow(_, _)
Follow(path, n) ==
    IF n = 0 \/ KindAt(Disk, path) # "Symlink"
    THEN path
    ELSE Follow(InodeAt(Disk, path).symlink_target, n - 1)

\* Where the chain of symlinks from path ends: in a table of so many keys a
\* chain that has not ended after as many hops goes round.
ChainEnd(path) == Follow(path, Cardinality(DOMAIN fs))

\* C22: try_exists(P) returns true exactly when the chain of symlink targets
\* from P reaches an entry that is not a symlink, returns false when P or a
\* hop of the chain is missing from the table, looks at no ancestor of P, and
\* leaves the table as it was.
TryExistsFollowsLinks ==
    DiskLeft =>
        \A path \in Paths :
            LET r == try_exists(Disk, path)
                reached == KindAt(Disk, ChainEnd(path))
            IN  /\ (r.res = "Ok" /\ r.out = <<1>>) <=> reached \in {"File", "Dir"}
                /\ reached = "Absent" => (r.res = "Ok" /\ r.out = <<0>>)
                /\ DiskOf(r) = Disk

\* try_exists returned true for a symlink whose parent is not in the table.
TryExistsFollowsLinksWitness ==
    /\ last.op = "try_exists"
    /\ last.res = "Ok"
    /\ last.out = <<1>>
    /\ last.was = "Symlink"
    /\ parent(last.path) \notin DOMAIN fs

\* The key at which the table holds the Arc.
KeyOf(arc) == CHOOSE k \in DOMAIN fs : fs[k] = arc

\* C23: read_dir(P) on a present P yields the entries of the direct children
\* of P and no others (no grandchild, not P itself), each once, in ascending
\* order of their keys; after the last of them every next_entry returns None.
ReadDirYieldsChildren ==
    DiskLeft =>
        \A path \in Paths :
            make_sure_path_exists(Disk, path) = "Ok" =>
                LET r == read_dir(Disk, path)
                    n == Cardinality(Children(path))
                    entries == next_entries(MemReadDir_new(r.out), n + 2)
                IN  /\ r.res = "Ok"
                    /\ \A i \in 1..n : entries[i] # 0 /\ KeyOf(entries[i]) \in Children(path)
                    /\ \A k \in Children(path) :
                           Cardinality({i \in 1..n : entries[i] = fs[k]}) = 1
                    /\ \A i \in 1..n : \A j \in (i + 1)..n :
                           path_less(KeyOf(entries[i]), KeyOf(entries[j]))
                    /\ entries[n + 1] = 0 /\ entries[n + 2] = 0

\* read_dir("/") returned the entry of /a alone while /a/b was in the table.
ReadDirYieldsChildrenWitness ==
    /\ last.op = "read_dir"
    /\ last.res = "Ok"
    /\ last.path = Root
    /\ <<"/", "a", "b">> \in DOMAIN fs
    /\ last.out = <<fs[<<"/", "a">>]>>

\* The modes set_permissions is asked for.
AnyModes == {0, 420, 493, 511}

\* C24: set_permissions(P, m) fails with NotFound when P is absent; when it
\* succeeds, metadata(P).permissions() is m, the keys of the table are those
\* before, and every inode is as before but for the mode of the one at P.
SetPermissionsSetsMode ==
    DiskLeft =>
        \A path \in Paths, m \in AnyModes :
            LET r == set_permissions(Disk, path, m)
                after == metadata(DiskOf(r), path)
            IN  /\ path \notin DOMAIN fs => (r.res = "NotFound" /\ DiskOf(r) = Disk)
                /\ r.res = "Ok" =>
                       /\ after.res = "Ok"
                       /\ permissions(r.heap, after.n) = m
                       /\ r.fs = fs
                       /\ DOMAIN r.heap = DOMAIN heap
                       /\ r.heap[fs[path]] = [heap[fs[path]] EXCEPT !.mode = m]
                       /\ \A a \in (DOMAIN heap) \ {fs[path]} : r.heap[a] = heap[a]

\* set_permissions gave the file at /a the mode 0o777; it kept its byte.
SetPermissionsSetsModeWitness ==
    /\ last.op = "set_permissions"
    /\ last.res = "Ok"
    /\ last.was = "File"
    /\ last.mode = 511
    /\ permissions(heap, fs[last.path]) = 511
    /\ InodeAt(Disk, last.path).buffer = <<65>>

\* C27: hard_link(src, dst) fails for every src and dst with an error of the
\* kind Unsupported, which the caller receives.
HardLinkUnsupported == last.op = "hard_link" => last.res = "Unsupported"

\* C25: remove_file(P) fails with NotFound when P or an ancestor of P is
\* absent, and then removes nothing; when it succeeds the key P is gone
\* (metadata(P) fails) and every other key maps to its entry, unchanged.
RemoveFileRemovesOneKey ==
    DiskLeft =>
        \A path \in Paths :
            LET r == remove_file(Disk, path)
            IN  /\ (\/ path \notin DOMAIN fs
                    \/ \E anc \in Ancestors(path) : anc \notin DOMAIN fs) =>
                       (r.res = "NotFound" /\ SameBut(r.fs, r.heap, {}))
                /\ r.res = "Ok" =>
                       /\ SameBut(r.fs, r.heap, {path})
                       /\ metadata(DiskOf(r), path).res = "NotFound"

\* remove_file("/a") succeeded on a file and left /ab in the table.
RemoveFileRemovesOneKeyWitness ==
    /\ last.op = "remove_file"
    /\ last.res = "Ok"
    /\ last.path = <<"/", "a">>
    /\ last.was = "File"
    /\ <<"/", "a">> \notin DOMAIN fs
    /\ <<"/", "ab">> \in DOMAIN fs

\* A call that returned r failed in its existence guard or its kind check.
FailedInGuard(r) == r.res \in {"NotFound", "AlreadyExists", "InvalidInput"}

\* If the call that returned r failed so, it has left every key of the table
\* and every entry as they were.
Kept(r) == FailedInGuard(r) => SameBut(r.fs, r.heap, {})

\* C26: a call of any operation that returns a failure of its existence guard
\* (NotFound, AlreadyExists) or of its kind check (InvalidInput) leaves the
\* set of keys and every entry of the table as they were before the call.
GuardFailureKeepsTable ==
    DiskLeft =>
        /\ \A path \in Paths :
               /\ Kept(create_dir(Disk, path))
               /\ Kept(create_dir_all(Disk, path))
               /\ Kept(remove_file(Disk, path))
               /\ Kept(remove_dir(Disk, path))
               /\ Kept(remove_dir_all(Disk, path))
               /\ Kept(read(Disk, path))
               /\ Kept(read_to_string(Disk, path))
               /\ Kept(read_link(Disk, path))
               /\ Kept(read_dir(Disk, path))
               /\ Kept(metadata(Disk, path))
               /\ Kept(symlink_metadata(Disk, path))
               /\ Kept(canonicalize(Disk, path))
               /\ Kept(try_exists(Disk, path))
        /\ \A path \in Paths, contents \in Contents :
               Kept(write(Disk, path, contents))
        /\ \A path \in Paths, perm \in Modes :
               Kept(set_permissions(Disk, path, perm))
        /\ \A from \in Paths, to \in Paths :
               /\ Kept(copy(Disk, from, to))
               /\ Kept(rename(Disk, from, to))
               /\ Kept(symlink(Disk, from, to))
               /\ Kept(hard_link(Disk, from, to))

\* Both tasks have written to the same path and both calls have returned Ok.
BothWrote(path) ==
    \A t \in Tasks :
        writers[t].pc = "done" /\ writers[t].res = "Ok" /\ writers[t].path = path

\* C28: when two tasks run write(P, B1) and write(P, B2) beside each other,
\* the inserts take the table one after the other, and once both calls have
\* returned read(P) returns B1 or B2 whole, never a mixture of the two.
ConcurrentWritesSerialize ==
    /\ Cardinality({t \in Tasks : writers[t].pc = "locked"}) <= 1
    /\ \A path \in Paths :
           BothWrote(path) =>
               /\ read(Disk, path).res = "Ok"
               /\ read(Disk, path).out \in {writers[t].contents : t \in Tasks}

\* Two writes of different bytes to /a ran beside each other and both have
\* returned: /a holds the bytes of the second task.
ConcurrentWritesSerializeWitness ==
    /\ BothWrote(<<"/", "a">>)
    /\ writers[1].beside \/ writers[2].beside
    /\ writers[1].contents = <<65>>
    /\ writers[2].contents = <<66, 67>>
    /\ read(Disk, <<"/", "a">>).out = <<66, 67>>

\* C29: two writes to two distinct paths that run beside each other never
\* block each other: neither waits for a lock on the table while the other
\* holds it.
DistinctWritesNeverWait ==
    \A t \in Tasks, u \in Tasks :
        (/\ writers[t].path # writers[u].path
         /\ writers[u].pc = "locked") =>
            writers[t].pc \notin {"guard", "lock"}

\* C30: a write of n bytes through a MemFile at position p leaves the buffer
\* max(old length, p + n) bytes long, with the bytes written at [p, p + n),
\* zeros in the gap [old length, p), and every byte it had outside
\* [p, p + n) as before, those from p + n on included; the position of the
\* handle becomes p + n and n is reported.
PollWriteKeepsTheRest ==
    [][last'.op = "poll_write" =>
        LET old == heap[file.inode].buffer
            new == heap'[file.inode].buffer
            p == file.position
            n == Len(last'.data)
            longest == IF Len(old) > p + n THEN Len(old) ELSE p + n
        IN  /\ Len(new) = longest
            /\ \A i \in 1..n : new[p + i] = last'.data[i]
            /\ \A i \in (Len(old) + 1)..p : new[i] = 0
            /\ \A i \in 1..Len(old) : (i <= p \/ i > p + n) => new[i] = old[i]
            /\ file'.position = p + n
            /\ last'.n = n]_vars

\* The lesser of two numbers.
Least(a, b) == IF a < b THEN a ELSE b

\* C31: a read through a MemFile at position p with room for k bytes, on a
\* buffer of length L, copies the min(k, L - p) bytes of the buffer from p on
\* and advances the position by that count; when p >= L it succeeds with no
\* byte and leaves the position; it never fails and never changes the buffer.
PollReadCopiesWhatIsLeft ==
    file # NoFile =>
        \A k \in 0..(MaxBytes + 1) :
            LET r == poll_read(heap, file, k)
                buffer == heap[file.inode].buffer
                p == file.position
                count == IF p >= Len(buffer) THEN 0 ELSE Least(k, Len(buffer) - p)
            IN  /\ r.res = "Ok"
                /\ r.n = count
                /\ Len(r.out) = count
                /\ \A i \in 1..count : r.out[i] = buffer[p + i]
                /\ r.this.position = p + count
                /\ r.this.inode = file.inode
                /\ r.heap = heap

\* A read with room for four bytes at position 1 of a buffer of three bytes
\* returned its last two bytes and left the handle at its end.
PollReadCopiesWhatIsLeftWitness ==
    /\ last.op = "poll_read"
    /\ last.mode = 4
    /\ last.n = 2
    /\ last.out = <<66, 67>>
    /\ Len(heap[file.inode].buffer) = 3
    /\ file.position = 3

\* C32: a seek on a MemFile at position p over a buffer of length L: Start(n)
\* sets the position to n, also past L; Current(d) sets it to p + d; End(d)
\* sets it to L + d, to L when that is more, and never leaves it past L,
\* whatever d is; the position reported is the new position.
SeekSetsPosition ==
    file # NoFile =>
        \A d \in (0 - MaxBytes)..MaxBytes :
            LET L == Len(heap[file.inode].buffer)
                p == file.position
                start == start_seek(heap, file, "Start", d)
                current == start_seek(heap, file, "Current", d)
                end == start_seek(heap, file, "End", d)
            IN  /\ d >= 0 => (start.position = d /\ poll_complete(start) = d)
                /\ current.position = p + d
                /\ poll_complete(current) = p + d
                /\ end.position <= L
                /\ (L + d >= 0 /\ d <= 0) => end.position = L + d
                /\ d > 0 => end.position = L
                /\ poll_complete(end) = end.position

\* C33: after try_clone the two handles are on one entry and each has its own
\* position: the clone starts on the Arc and at the position of the handle it
\* was made of; the bytes a write through one handle has put at its position
\* are what a read through the other returns from there; and a seek, a read
\* or a write on one handle leaves the position of the other.
CloneSharesEntry ==
    [][/\ last'.op = "try_clone" =>
              /\ cloned'.inode = file.inode
              /\ cloned'.position = file.position
              /\ file' = file
       /\ (cloned # NoFile /\ last'.op = "poll_write") =>
              LET wrote == IF last'.path = OnClone THEN cloned ELSE file
                  other == IF last'.path = OnClone THEN file' ELSE cloned'
                  from == start_seek(heap', other, "Start", wrote.position)
              IN  poll_read(heap', from, Len(last'.data)).out = last'.data
       /\ (cloned # NoFile /\ last'.op \in {"poll_write", "poll_read", "start_seek"}) =>
              IF last'.path = OnClone
              THEN file'.position = file.position
              ELSE cloned'.position = cloned.position]_vars

\* A read through the clone returned three bytes that the file did not have
\* when the handles were made, and the two handles are at different positions.
CloneSharesEntryWitness ==
    /\ last.op = "poll_read"
    /\ last.path = OnClone
    /\ last.out = <<66, 67, 65>>
    /\ cloned.inode = file.inode
    /\ file.position = 1
    /\ cloned.position = 3

\* C34: an operation that checks its existence guard and then changes the
\* table holds the write lock of the table from the check to the change: a
\* rename that has passed a guard and has not yet changed the table holds it.
GuardUnderWriteLock ==
    task.pc \in {"from_ok", "to_ok"} => fs_lock.writer

\* The path the claim has an operation act on: the path itself when it starts
\* with the scope, else the scope joined with the path less its leading "/".
UnderScope(path) ==
    IF Len(path) >= Len(Scope) /\ SubSeq(path, 1, Len(Scope)) = Scope THEN path
    ELSE Scope \o (IF path # <<>> /\ path[1] = "/" THEN Tail(path) ELSE path)

\* C35: with the scope S, an operation given a path P that does not start
\* with S acts on the host path S joined with P less its leading "/", and on
\* P itself when P starts with S: what write has written to P is the file at
\* that host path, and read_to_string of P returns it.
ScopedJoinsScope ==
    \A path \in ScopePaths :
        /\ scoped(Scope, path) = UnderScope(path)
        /\ \A contents \in Contents :
               LET w == tokio_write(Disk, Scope, path, contents)
               IN  w.res = "Ok" =>
                       /\ host_read_to_string(DiskOf(w), UnderScope(path)).out = contents
                       /\ tokio_read_to_string(DiskOf(w), Scope, path).out = contents

\* read_to_string("/a") returned what write("/a") had written, and the file
\* of the host is /tmp/a.
ScopedJoinsScopeWitness ==
    /\ last.op = "tokio_read_to_string"
    /\ last.res = "Ok"
    /\ last.path = <<"/", "a">>
    /\ last.to = <<"/", "tmp", "a">>
    /\ last.out = <<66, 67>>
    /\ KindAt(Disk, <<"/", "tmp", "a">>) = "File"
    /\ KindAt(Disk, <<"/", "a">>) = "Absent"

\* C40: with the scope S, for every path P, those with ".." and those given
\* to open included, the host path an operation acts on lies inside S once
\* its ".." are resolved (so no file of the host outside S is made), and
\* open maps P to the host path the other operations map it to.
ScopeConfines ==
    /\ \A path \in ScopePaths :
           /\ starts_with(host_resolve(scoped(Scope, path), Root), Scope)
           /\ starts_with(host_resolve(open_path(Scope, path), Root), Scope)
           /\ open_path(Scope, path) = scoped(Scope, path)
    /\ \A k \in DOMAIN fs : k = Root \/ starts_with(k, Scope)

\* C36: in every state reached from a new disk the key "/" is in the table
\* and the entry stored at it is a directory: no operation removes the root,
\* renames it away or replaces it.
RootIsDirectory ==
    /\ Root \in DOMAIN fs
    /\ KindAt(Disk, Root) = "Dir"

\* C37: in every reachable state the path recorded inside the entry stored
\* at a key of the table is that key, so a read_dir descriptor reports the
\* path under which its entry is stored, also after rename and copy.
RecordedPathIsKey ==
    \A k \in DOMAIN fs : InodeAt(Disk, k).path = k

\* C38: no sequence of operations from a new disk makes a cycle of symlinks:
\* from every key the chain of symlink targets ends at a path that is no
\* symlink, and neither canonicalize nor try_exists goes round for ever.
NoSymlinkCycle ==
    /\ DiskLeft => \A k \in DOMAIN fs : KindAt(Disk, ChainEnd(k)) # "Symlink"
    /\ last.res # "Hang"

\* C39: with tasks that run operations on one table at the same time and a
\* fair lock that prefers writers, every operation that has started comes to
\* its end, no reachable state being a deadlock: while a metadata call or a
\* write is under way, one of the calls under way can take its next step.
NoTableDeadlock ==
    (\/ reader.pc \notin {"idle", "done"}
     \/ \E t \in Tasks : writers[t].pc \notin {"idle", "done"})
        => ENABLED (MetadataRun \/ \E t \in Tasks : WriteRun(t))

====
